---------------------------- MODULE Spec2Model ----------------------------
(***************************************************************************)
(* rakutree: a terminal front-end over `git worktree` / `git branch`.      *)
(*                                                                         *)
(* The module models                                                       *)
(*   - the git facade's suggestion heuristics (internal/git/worktree.go),  *)
(*   - the screen controller Model.Update / Model.handleEnter of the tui   *)
(*     package (the second, current copy in src/unnamed/part_000, lines    *)
(*     395-1010; lines 1-393 are the superseded copy).                     *)
(*                                                                         *)
(* Go strings are sequences of one-character strings, so that Contains,    *)
(* ReplaceAll, comparison and the title dispatch work on characters.       *)
(*                                                                         *)
(* Fields of Model that no handler reads after the handler that wrote them *)
(* (worktrees, branches, width, height, the inputs' placeholder and focus) *)
(* are not part of the state, nor is the list widget's cursor: the item    *)
(* selected when Enter is pressed is an input of that key press.           *)
(***************************************************************************)
EXTENDS Integers, Sequences, FiniteSets, TLC

(***************************************************************************)
(* Bounds of the model.                                                    *)
(***************************************************************************)
\* most worktrees `git worktree list` reports besides the primary one
MaxExtraWorktrees == 1
\* most branches `git branch -a` reports
MaxBranches == 2
\* most characters typed into a text input by hand
MaxTyped == 1
\* on a suggestion screen the user picks among the first MaxPick suggestions and
\* the custom entry
MaxPick == 1
\* most times Enter is pressed on a menu entry other than Quit
MaxFlows == 2
\* most linked worktrees in a listing handed to SuggestPaths directly
MaxGitWorktrees == 3
\* most branches in a listing handed to SuggestBranchNames directly
MaxGitBranches == 4
\* most lines of `git branch -a` output handed to ListBranches directly
MaxBranchLines == 4
\* longest list handed to sortBranches directly
MaxSortLen == 3
\* most lines of `git worktree list --porcelain` output handed to parseWorktrees
MaxPorcelainLines == 4

(***************************************************************************)
(* strings                                                                 *)
(***************************************************************************)
\* printable ASCII in code order, from 32 (space): Go compares strings bytewise
\* (double quote, backslash and backquote are spelled out: no string here has them)
Ascii ==
    << " ", "!", "dquote", "#", "$", "%", "&", "'", "(", ")", "*", "+", ",", "-",
       ".", "/", "0", "1", "2", "3", "4", "5", "6", "7", "8", "9", ":", ";",
       "<", "=", ">", "?", "@", "A", "B", "C", "D", "E", "F", "G", "H", "I",
       "J", "K", "L", "M", "N", "O", "P", "Q", "R", "S", "T", "U", "V", "W",
       "X", "Y", "Z", "[", "bslash", "]", "^", "_", "bquote", "a", "b", "c", "d", "e",
       "f", "g", "h", "i", "j", "k", "l", "m", "n", "o", "p", "q", "r", "s",
       "t", "u", "v", "w", "x", "y", "z", "{", "|", "}", "~" >>

Ord(c) ==
    CHOOSE i \in 1..Len(Ascii) : Ascii[i] = c

\* s < t for Go strings
RECURSIVE StrLess(_, _)
StrLess(s, t) ==
    IF t = <<>> THEN FALSE
    ELSE IF s = <<>> THEN TRUE
    ELSE IF Head(s) = Head(t) THEN StrLess(Tail(s), Tail(t))
    ELSE Ord(Head(s)) < Ord(Head(t))

\* t occurs in s starting at position i (1-based)
HasPrefixAt(s, t, i) ==
    /\ i + Len(t) - 1 <= Len(s)
    /\ SubSeq(s, i, i + Len(t) - 1) = t

\* strings.Contains
Contains(s, t) ==
    \E i \in 1..(Len(s) + 1) : HasPrefixAt(s, t, i)

\* strings.Index: 0-based position of the first occurrence, -1 when none
Index(s, t) ==
    IF Contains(s, t)
    THEN (CHOOSE i \in 1..(Len(s) + 1) :
            /\ HasPrefixAt(s, t, i)
            /\ \A j \in 1..(i - 1) : ~HasPrefixAt(s, t, j)) - 1
    ELSE -1

\* strings.ReplaceAll: non-overlapping occurrences, left to right; an empty
\* `old` matches before every character and at the end
RECURSIVE ReplaceAll(_, _, _)
ReplaceAll(s, old, new) ==
    IF old = <<>>
    THEN IF s = <<>> THEN new
         ELSE new \o <<Head(s)>> \o ReplaceAll(Tail(s), old, new)
    ELSE IF Len(s) < Len(old) THEN s
    ELSE IF HasPrefixAt(s, old, 1)
         THEN new \o ReplaceAll(SubSeq(s, Len(old) + 1, Len(s)), old, new)
         ELSE <<Head(s)>> \o ReplaceAll(Tail(s), old, new)

\* strings.ToLower on ASCII: "A".."Z" are codes 34..59 of Ascii, "a".."z" 66..91
LowerChar(c) ==
    IF Ord(c) >= 34 /\ Ord(c) <= 59 THEN Ascii[Ord(c) + 32] ELSE c

ToLower(s) ==
    [i \in 1..Len(s) |-> LowerChar(s[i])]

\* strconv of a non-negative int, as the %d verb prints it
RECURSIVE Itoa(_)
Itoa(n) ==
    IF n < 10 THEN <<Ascii[17 + n]>>
    ELSE Itoa(n \div 10) \o <<Ascii[17 + (n % 10)]>>

\* every order in which the elements of S can be enumerated (a Go map range)
Orders(S) ==
    {f \in [1..Cardinality(S) -> S] :
        \A i, j \in 1..Cardinality(S) : f[i] = f[j] => i = j}

Swap(q, i, j) ==
    [q EXCEPT ![i] = q[j], ![j] = q[i]]

(***************************************************************************)
(* formatted text: a format literal and its string arguments               *)
(***************************************************************************)
\* fmt.Sprintf(f, a...) with string arguments, kept unexpanded
Sprintf(f, a) ==
    [fmt |-> f, args |-> a]

(***************************************************************************)
(* internal/git: branch ordering                                           *)
(***************************************************************************)
Main == <<"m", "a", "i", "n">>

Master == <<"m", "a", "s", "t", "e", "r">>

\* the inner loop over otherBranches with the comparison turned round
RECURSIVE sortOtherInnerDescending(_, _, _)
sortOtherInnerDescending(q, i, j) ==
    IF j > Len(q) THEN q
    ELSE sortOtherInnerDescending(
             IF StrLess(q[i], q[j]) THEN Swap(q, i, j) ELSE q,
             i, j + 1)

\* sortBranches, second loop nest: exchange sort of otherBranches, ascending
RECURSIVE sortOtherInner(_, _, _)
sortOtherInner(q, i, j) ==
    IF j > Len(q) THEN q
    ELSE sortOtherInner(IF StrLess(q[j], q[i]) THEN Swap(q, i, j) ELSE q, i, j + 1)

RECURSIVE sortOtherOuter(_, _)
sortOtherOuter(q, i) ==
    IF i >= Len(q) THEN q
    ELSE sortOtherOuter(sortOtherInner(q, i, i + 1), i + 1)

\* sortBranches, first loop nest: main before master among the priority branches
RECURSIVE sortPriorityInner(_, _, _)
sortPriorityInner(q, i, j) ==
    IF j > Len(q) THEN q
    ELSE sortPriorityInner(IF q[i] = Master /\ q[j] = Main THEN Swap(q, i, j) ELSE q,
                           i, j + 1)

RECURSIVE sortPriorityOuter(_, _)
sortPriorityOuter(q, i) ==
    IF i >= Len(q) THEN q
    ELSE sortPriorityOuter(sortPriorityInner(q, i, i + 1), i + 1)

sortBranches(bs) ==
    LET priorityBranches == SelectSeq(bs, LAMBDA b : b = Main \/ b = Master)
        otherBranches == SelectSeq(bs, LAMBDA b : ~(b = Main \/ b = Master))
    IN  sortPriorityOuter(priorityBranches, 1) \o sortOtherOuter(otherBranches, 1)

(***************************************************************************)
(* internal/git: ListBranches, from the lines of `git branch -a`           *)
(***************************************************************************)
\* strings.TrimSpace; the lines hold no white space but the blank
RECURSIVE TrimLeft(_)
TrimLeft(s) ==
    IF s # <<>> /\ Head(s) = " " THEN TrimLeft(Tail(s)) ELSE s

RECURSIVE TrimRight(_)
TrimRight(s) ==
    IF s # <<>> /\ s[Len(s)] = " " THEN TrimRight(SubSeq(s, 1, Len(s) - 1)) ELSE s

TrimSpace(s) ==
    TrimRight(TrimLeft(s))

\* strings.TrimPrefix
TrimPrefix(s, p) ==
    IF HasPrefixAt(s, p, 1) THEN SubSeq(s, Len(p) + 1, Len(s)) ELSE s

CurrentMarker == <<"*", " ">>

RemotesOrigin == <<"r", "e", "m", "o", "t", "e", "s", "/", "o", "r", "i", "g", "i", "n", "/">>

HeadWord == <<"H", "E", "A", "D">>

\* the body of the loop over the lines: the branch a line contributes, <<>>
\* when the line is skipped
branchOfLine(line) ==
    LET l1 == TrimSpace(line)
        l2 == TrimSpace(TrimPrefix(l1, CurrentMarker))
        l3 == IF HasPrefixAt(l2, RemotesOrigin, 1) THEN TrimPrefix(l2, RemotesOrigin)
              ELSE l2
    IN  IF l1 = <<>> THEN <<>>
        ELSE IF ~Contains(l3, HeadWord) /\ l3 # <<>> THEN l3
        ELSE <<>>

\* the loop over the lines
RECURSIVE collectBranches(_, _)
collectBranches(lines, acc) ==
    IF lines = <<>> THEN acc
    ELSE collectBranches(Tail(lines),
                         IF branchOfLine(Head(lines)) # <<>>
                         THEN Append(acc, branchOfLine(Head(lines)))
                         ELSE acc)

\* the loop removing duplicates: the first occurrence stays
RECURSIVE uniqueBranches(_, _)
uniqueBranches(bs, acc) ==
    IF bs = <<>> THEN acc
    ELSE uniqueBranches(Tail(bs),
                        IF Head(bs) \in {acc[k] : k \in 1..Len(acc)} THEN acc
                        ELSE Append(acc, Head(bs)))

\* ListBranches when `git branch -a` succeeds and prints `lines`
ListBranches(lines) ==
    sortBranches(uniqueBranches(collectBranches(lines, <<>>), <<>>))

(***************************************************************************)
(* internal/git: parseWorktrees, from the lines of the porcelain listing   *)
(***************************************************************************)
\* Worktree{}
NoWorktree ==
    [Path |-> <<>>, Branch |-> <<>>, Commit |-> <<>>]

\* strings.SplitN(line, " ", 2)
SplitN2(line) ==
    IF Index(line, <<" ">>) < 0 THEN <<line>>
    ELSE <<SubSeq(line, 1, Index(line, <<" ">>)),
           SubSeq(line, Index(line, <<" ">>) + 2, Len(line))>>

RefsHeads == <<"r", "e", "f", "s", "/", "h", "e", "a", "d", "s", "/">>

\* the switch on parts[0]
parseField(current, parts) ==
    IF parts[1] = <<"w", "o", "r", "k", "t", "r", "e", "e">> THEN [current EXCEPT !.Path = parts[2]]
    ELSE IF parts[1] = <<"b", "r", "a", "n", "c", "h">>
         THEN [current EXCEPT !.Branch = TrimPrefix(parts[2], RefsHeads)]
    ELSE IF parts[1] = HeadWord THEN [current EXCEPT !.Commit = parts[2]]
    ELSE current

\* the loop with every blank line closing a record, whatever was accumulated
RECURSIVE parseLinesEveryBlank(_, _, _)
parseLinesEveryBlank(lines, current, worktrees) ==
    IF lines = <<>>
    THEN IF current.Path # <<>> THEN Append(worktrees, current) ELSE worktrees
    ELSE IF TrimSpace(Head(lines)) = <<>>
         THEN parseLinesEveryBlank(Tail(lines), NoWorktree, Append(worktrees, current))
    ELSE IF Len(SplitN2(TrimSpace(Head(lines)))) < 2
         THEN parseLinesEveryBlank(Tail(lines), current, worktrees)
    ELSE parseLinesEveryBlank(Tail(lines),
                              parseField(current, SplitN2(TrimSpace(Head(lines)))),
                              worktrees)

\* the loop with `current` kept after a record is appended
RECURSIVE parseLinesKeepCurrent(_, _, _)
parseLinesKeepCurrent(lines, current, worktrees) ==
    IF lines = <<>>
    THEN IF current.Path # <<>> THEN Append(worktrees, current) ELSE worktrees
    ELSE IF TrimSpace(Head(lines)) = <<>>
         THEN IF current.Path # <<>>
              THEN parseLinesKeepCurrent(Tail(lines), [current EXCEPT !.Path = <<>>],
                                         Append(worktrees, current))
              ELSE parseLinesKeepCurrent(Tail(lines), current, worktrees)
    ELSE IF Len(SplitN2(TrimSpace(Head(lines)))) < 2
         THEN parseLinesKeepCurrent(Tail(lines), current, worktrees)
    ELSE parseLinesKeepCurrent(Tail(lines),
                               parseField(current, SplitN2(TrimSpace(Head(lines)))),
                               worktrees)

\* the loop over the lines, and the append after it
RECURSIVE parseLines(_, _, _)
parseLines(lines, current, worktrees) ==
    IF lines = <<>>
    THEN IF current.Path # <<>> THEN Append(worktrees, current) ELSE worktrees
    ELSE IF TrimSpace(Head(lines)) = <<>>
         THEN IF current.Path # <<>>
              THEN parseLines(Tail(lines), NoWorktree, Append(worktrees, current))
              ELSE parseLines(Tail(lines), current, worktrees)
    ELSE IF Len(SplitN2(TrimSpace(Head(lines)))) < 2
         THEN parseLines(Tail(lines), current, worktrees)
    ELSE parseLines(Tail(lines),
                    parseField(current, SplitN2(TrimSpace(Head(lines)))),
                    worktrees)

\* parseWorktrees(output), output given as strings.Split(output, "\n")
parseWorktrees(lines) ==
    parseLines(lines, NoWorktree, <<>>)

(***************************************************************************)
(* internal/git: path suggestions                                          *)
(***************************************************************************)
Placeholder == <<"{", "b", "r", "a", "n", "c", "h", "}">>

Slash == <<"/">>

Dash == <<"-">>

\* the first element of vs that occurs in path, replaced everywhere
RECURSIVE firstVariant(_, _)
firstVariant(path, vs) ==
    IF vs = <<>> THEN <<>>
    ELSE IF Contains(path, Head(vs)) THEN ReplaceAll(path, Head(vs), Placeholder)
    ELSE firstVariant(path, Tail(vs))

extractPattern(path, branch) ==
    LET normalizedBranch == ReplaceAll(branch, Slash, Dash)
    IN  firstVariant(path, << branch, normalizedBranch,
                              ToLower(branch), ToLower(normalizedBranch) >>)

applyPattern(pattern, branch) ==
    ReplaceAll(pattern.Template, Placeholder, ReplaceAll(branch, Slash, Dash))

\* analyzePathPatterns, first loop: template -> number of worktrees yielding it
patternMap(wts) ==
    LET yields(i) == IF wts[i].Branch = <<>> THEN <<>>
                     ELSE extractPattern(wts[i].Path, wts[i].Branch)
        templates == {yields(i) : i \in 1..Len(wts)} \ {<<>>}
    IN  [t \in templates |-> Cardinality({i \in 1..Len(wts) : yields(i) = t})]

\* the inner sort loop with the comparison turned round: smaller Count first
RECURSIVE sortPatternsInnerAscending(_, _, _)
sortPatternsInnerAscending(q, i, j) ==
    IF j > Len(q) THEN q
    ELSE sortPatternsInnerAscending(IF q[j].Count < q[i].Count THEN Swap(q, i, j)
                                    ELSE q,
                                    i, j + 1)

\* analyzePathPatterns, sort loop nest: exchange sort, larger Count first
RECURSIVE sortPatternsInner(_, _, _)
sortPatternsInner(q, i, j) ==
    IF j > Len(q) THEN q
    ELSE sortPatternsInner(IF q[j].Count > q[i].Count THEN Swap(q, i, j) ELSE q,
                           i, j + 1)

RECURSIVE sortPatternsOuter(_, _)
sortPatternsOuter(q, i) ==
    IF i >= Len(q) THEN q
    ELSE sortPatternsOuter(sortPatternsInner(q, i, i + 1), i + 1)

\* analyzePathPatterns without the sort by count
analyzePathPatternsUnsorted(wts) ==
    LET pm == patternMap(wts)
    IN  Orders({[Template |-> t, Count |-> pm[t]] : t \in DOMAIN pm})

\* the results analyzePathPatterns can return: the map is ranged over in any order
analyzePathPatterns(wts) ==
    LET pm == patternMap(wts)
        ps == {[Template |-> t, Count |-> pm[t]] : t \in DOMAIN pm}
    IN  {sortPatternsOuter(o, 1) : o \in Orders(ps)}

getDefaultSuggestions(branch, repoName) ==
    LET normalizedBranch == ReplaceAll(branch, Slash, Dash)
        basic ==
            << [Path |-> <<".", ".", "/">> \o normalizedBranch,
                Description |-> Sprintf("Sibling directory (default)", <<>>),
                IsCustom |-> FALSE],
               [Path |-> <<".", ".", "/", "w", "o", "r", "k", "t", "r", "e", "e", "s", "/">>
                            \o normalizedBranch,
                Description |-> Sprintf("Organized in worktrees folder", <<>>),
                IsCustom |-> FALSE] >>
    IN  IF repoName # <<>>
        THEN Append(basic,
                    [Path |-> <<".", ".", "/">> \o repoName \o Dash \o normalizedBranch,
                     Description |-> Sprintf("With repository name prefix", <<>>),
                     IsCustom |-> FALSE])
        ELSE basic

\* the loop over the learned patterns without the check of the paths seen
RECURSIVE learnedSuggestionsUnseen(_, _, _)
learnedSuggestionsUnseen(patterns, branch, acc) ==
    IF patterns = <<>> THEN acc
    ELSE LET pattern == Head(patterns)
             path == applyPattern(pattern, branch)
         IN  learnedSuggestionsUnseen(
                 Tail(patterns), branch,
                 IF path # <<>>
                 THEN Append(acc,
                             [Path |-> path,
                              Description |-> Sprintf("Learned pattern (%d similar)",
                                                      <<Itoa(pattern.Count)>>),
                              IsCustom |-> FALSE])
                 ELSE acc)

\* SuggestPaths, loop over the learned patterns
RECURSIVE learnedSuggestions(_, _, _)
learnedSuggestions(patterns, branch, acc) ==
    IF patterns = <<>> THEN acc
    ELSE LET pattern == Head(patterns)
             path == applyPattern(pattern, branch)
             seen == {acc[k].Path : k \in 1..Len(acc)}
         IN  learnedSuggestions(
                 Tail(patterns), branch,
                 IF path # <<>> /\ path \notin seen
                 THEN Append(acc,
                             [Path |-> path,
                              Description |-> Sprintf("Learned pattern (%d similar)",
                                                      <<Itoa(pattern.Count)>>),
                              IsCustom |-> FALSE])
                 ELSE acc)

\* SuggestPaths, loop over the default suggestions
RECURSIVE addDefaults(_, _)
addDefaults(defaults, acc) ==
    IF defaults = <<>> THEN acc
    ELSE addDefaults(Tail(defaults),
                     IF Head(defaults).Path \notin {acc[k].Path : k \in 1..Len(acc)}
                     THEN Append(acc, Head(defaults))
                     ELSE acc)

CustomPathSuggestion ==
    [Path |-> <<>>, Description |-> Sprintf("Enter custom path...", <<>>),
     IsCustom |-> TRUE]

\* suggestPathsFrom adding the defaults up to and including three learned
\* suggestions
suggestPathsFromUpToThree(patterns, branch, repoName) ==
    LET learned == learnedSuggestions(patterns, branch, <<>>)
        withDefaults == IF Len(learned) <= 3
                        THEN addDefaults(getDefaultSuggestions(branch, repoName), learned)
                        ELSE learned
    IN  Append(withDefaults, CustomPathSuggestion)

\* suggestPathsFrom adding the custom entry together with the defaults only
suggestPathsFromCapped(patterns, branch, repoName) ==
    LET learned == learnedSuggestions(patterns, branch, <<>>)
    IN  IF Len(learned) < 3
        THEN Append(addDefaults(getDefaultSuggestions(branch, repoName), learned),
                    CustomPathSuggestion)
        ELSE learned

\* SuggestPaths after ListWorktrees succeeded with `wts`, for one order `patterns`
\* of the learned patterns
suggestPathsFrom(patterns, branch, repoName) ==
    LET learned == learnedSuggestions(patterns, branch, <<>>)
        withDefaults == IF Len(learned) < 3
                        THEN addDefaults(getDefaultSuggestions(branch, repoName), learned)
                        ELSE learned
    IN  Append(withDefaults, CustomPathSuggestion)

\* the results SuggestPaths can return when ListWorktrees returns wts
SuggestPaths(wts, branch, repoName) ==
    IF Len(wts) > 1
    THEN {suggestPathsFrom(ps, branch, repoName) :
             ps \in analyzePathPatterns(SubSeq(wts, 2, Len(wts)))}
    ELSE {suggestPathsFrom(<<>>, branch, repoName)}

(***************************************************************************)
(* internal/git: branch name suggestions                                   *)
(***************************************************************************)
\* the prefix analyzeBranchPrefixes counts for a branch, <<>> when none
branchPrefix(branch) ==
    IF branch = Main \/ branch = Master THEN <<>>
    ELSE IF Index(branch, Slash) > 0 THEN SubSeq(branch, 1, Index(branch, Slash) + 1)
    ELSE <<>>

analyzeBranchPrefixes(bs) ==
    LET prefixes == {branchPrefix(bs[i]) : i \in 1..Len(bs)} \ {<<>>}
    IN  [p \in prefixes |-> Cardinality({i \in 1..Len(bs) : branchPrefix(bs[i]) = p})]

commonPrefixes ==
    << [prefix |-> <<"f", "e", "a", "t", "u", "r", "e", "/">>, desc |-> "New feature"],
       [prefix |-> <<"b", "u", "g", "f", "i", "x", "/">>, desc |-> "Bug fix"],
       [prefix |-> <<"h", "o", "t", "f", "i", "x", "/">>, desc |-> "Urgent fix"],
       [prefix |-> <<"r", "e", "l", "e", "a", "s", "e", "/">>, desc |-> "Release branch"],
       [prefix |-> <<"r", "e", "f", "a", "c", "t", "o", "r", "/">>,
        desc |-> "Code refactoring"],
       [prefix |-> <<"c", "h", "o", "r", "e", "/">>, desc |-> "Maintenance task"] >>

\* learnedPrefixes suggesting a prefix that a single branch uses
RECURSIVE learnedPrefixesOnce(_, _, _)
learnedPrefixesOnce(order, prefixCounts, acc) ==
    IF order = <<>> THEN acc
    ELSE LET prefix == Head(order)
             count == prefixCounts[prefix]
         IN  learnedPrefixesOnce(
                 Tail(order), prefixCounts,
                 IF count >= 1 /\ prefix \notin {acc[k].Name : k \in 1..Len(acc)}
                 THEN Append(acc,
                             [Name |-> prefix,
                              Description |-> Sprintf("Learned pattern (%d branches)",
                                                      <<Itoa(count)>>),
                              IsCustom |-> FALSE])
                 ELSE acc)

\* SuggestBranchNames, loop over prefixCounts in the order `order`
RECURSIVE learnedPrefixes(_, _, _)
learnedPrefixes(order, prefixCounts, acc) ==
    IF order = <<>> THEN acc
    ELSE LET prefix == Head(order)
             count == prefixCounts[prefix]
         IN  learnedPrefixes(
                 Tail(order), prefixCounts,
                 IF count >= 2 /\ prefix \notin {acc[k].Name : k \in 1..Len(acc)}
                 THEN Append(acc,
                             [Name |-> prefix,
                              Description |-> Sprintf("Learned pattern (%d branches)",
                                                      <<Itoa(count)>>),
                              IsCustom |-> FALSE])
                 ELSE acc)

\* SuggestBranchNames, loop over commonPrefixes
RECURSIVE addCommonPrefixes(_, _)
addCommonPrefixes(cps, acc) ==
    IF cps = <<>> THEN acc
    ELSE addCommonPrefixes(
             Tail(cps),
             IF Head(cps).prefix \notin {acc[k].Name : k \in 1..Len(acc)}
             THEN Append(acc, [Name |-> Head(cps).prefix,
                               Description |-> Sprintf(Head(cps).desc, <<>>),
                               IsCustom |-> FALSE])
             ELSE acc)

CustomNameSuggestion ==
    [Name |-> <<>>, Description |-> Sprintf("Enter custom branch name...", <<>>),
     IsCustom |-> TRUE]

\* the results SuggestBranchNames can return when ListBranches returns bs
SuggestBranchNames(bs) ==
    LET prefixCounts == analyzeBranchPrefixes(bs)
    IN  {Append(addCommonPrefixes(commonPrefixes,
                                  learnedPrefixes(o, prefixCounts, <<>>)),
                CustomNameSuggestion) :
            o \in Orders(DOMAIN prefixCounts)}

(***************************************************************************)
(* path helpers (path/filepath)                                            *)
(***************************************************************************)
\* the "/"-separated segments of s
RECURSIVE Split(_, _)
Split(s, cur) ==
    IF s = <<>> THEN <<cur>>
    ELSE IF Head(s) = "/" THEN <<cur>> \o Split(Tail(s), <<>>)
    ELSE Split(Tail(s), Append(cur, Head(s)))

\* filepath.Clean of a rooted path, as a stack of segments
RECURSIVE cleanSegments(_, _)
cleanSegments(segs, acc) ==
    IF segs = <<>> THEN acc
    ELSE LET g == Head(segs)
         IN  cleanSegments(Tail(segs),
                 IF g = <<>> \/ g = <<".">> THEN acc
                 ELSE IF g = <<".", ".">>
                      THEN (IF acc = <<>> THEN acc ELSE SubSeq(acc, 1, Len(acc) - 1))
                      ELSE Append(acc, g))

RECURSIVE joinSegments(_)
joinSegments(segs) ==
    IF segs = <<>> THEN <<>>
    ELSE Slash \o Head(segs) \o joinSegments(Tail(segs))

\* filepath.Abs(path) when the working directory is wd
Abs(wd, path) ==
    LET full == IF path # <<>> /\ Head(path) = "/" THEN path ELSE wd \o Slash \o path
        segs == cleanSegments(Split(full, <<>>), <<>>)
    IN  IF segs = <<>> THEN Slash ELSE joinSegments(segs)

\* filepath.Base of a cleaned absolute path
Base(path) ==
    LET segs == cleanSegments(Split(path, <<>>), <<>>)
    IN  IF segs = <<>> THEN Slash ELSE segs[Len(segs)]

(***************************************************************************)
(* the environment: what git and the operating system can answer           *)
(***************************************************************************)
\* the directory the program runs in: the primary worktree
Cwd == <<"/", "r">>

\* os.Getwd: the directory (the call does not fail for a running program whose
\* directory exists; getRepoName and pathItems keep the failure branch)
GetwdOutcomes ==
    {[ok |-> TRUE, dir |-> Cwd]}

getRepoName(wd) ==
    IF wd.ok THEN Base(wd.dir) ELSE <<>>

CommitHash == <<"0", "1", "2", "3", "4", "5", "6", "7", "8">>

PrimaryWorktree ==
    [Path |-> Cwd, Branch |-> Main, Commit |-> CommitHash]

\* linked worktrees git may report: one in a folder named after its branch, one
\* detached
ExtraWorktrees ==
    { [Path |-> <<"/", "w", "/", "b">>, Branch |-> <<"b">>, Commit |-> CommitHash],
      [Path |-> <<"/", "d">>, Branch |-> <<>>, Commit |-> CommitHash] }

\* sequences without repetition over S, of length at most n
DistinctSeqs(S, n) ==
    UNION {{f \in [1..k -> S] : \A i, j \in 1..k : f[i] = f[j] => i = j} :
              k \in 0..n}

\* `git worktree list` names the primary worktree first, each worktree once
WorktreeListings ==
    {<<PrimaryWorktree>> \o x : x \in DistinctSeqs(ExtraWorktrees, MaxExtraWorktrees)}

BranchNames ==
    {Main, <<"b">>}

\* what ListBranches returns: distinct names, ordered by sortBranches
BranchListings ==
    {sortBranches(x) : x \in DistinctSeqs(BranchNames, MaxBranches)}

ListWorktreesOutcomes ==
    {[ok |-> FALSE, wts |-> <<>>]} \cup {[ok |-> TRUE, wts |-> l] : l \in WorktreeListings}

ListBranchesOutcomes ==
    {[ok |-> FALSE, bs |-> <<>>]} \cup {[ok |-> TRUE, bs |-> l] : l \in BranchListings}

\* characters a key press can put into a text input ("q" never reaches it)
TypedChars == {"z"}

(***************************************************************************)
(* internal/tui: the model                                                 *)
(***************************************************************************)
VARIABLES
    m,         \* the tea.Model value: the fields of Model
    calls,     \* the git operations the last Update invoked, in order
    flowMode,  \* the mode chosen on branchModeSelectView in the flow under way
    flows,     \* how often Enter was pressed on a menu entry other than Quit
    chosen,    \* what the user chose or typed in the flow under way
    gitIn,     \* the arguments of the last direct call of a git facade function
    gitOut     \* what that call returned

vars == <<m, calls, flowMode, flows, chosen, gitIn, gitOut>>

\* the program's own variables, and those of the direct calls of the facade
tuiVars == <<m, calls, flowMode, flows, chosen>>

gitVars == <<gitIn, gitOut>>

\* no direct call was made
NoCall == [op |-> "none"]

ViewStates ==
    {"menuView", "listView", "branchModeSelectView", "addView", "newBranchBaseView",
     "branchNameSuggestionView", "newBranchNameView", "pathSelectView",
     "customPathView", "removeView"}

Nil == "nil"

TitleListWorktrees == <<"L", "i", "s", "t", " ", "W", "o", "r", "k", "t", "r", "e", "e", "s">>

TitleAddWorktree == <<"A", "d", "d", " ", "W", "o", "r", "k", "t", "r", "e", "e">>

TitleRemoveWorktree == <<"R", "e", "m", "o", "v", "e", " ", "W", "o", "r", "k", "t", "r", "e", "e">>

TitleQuit == <<"Q", "u", "i", "t">>

TitleUseExisting == <<"U", "s", "e", " ", "e", "x", "i", "s", "t", "i", "n", "g", " ", "b", "r", "a", "n", "c", "h">>

TitleCreateNew == <<"C", "r", "e", "a", "t", "e", " ", "n", "e", "w", " ", "b", "r", "a", "n", "c", "h">>

\* the pencil sign is one element
TitleCustomPath == <<"pencil", " ", " ", "C", "u", "s", "t", "o", "m", " ", "p", "a", "t", "h", ".", ".", ".">>

TitleCustomName == <<"pencil", " ", " ", "C", "u", "s", "t", "o", "m", " ", "n", "a", "m", "e", ".", ".", ".">>

Detached == <<"d", "e", "t", "a", "c", "h", "e", "d">>

MenuItems ==
    << [title |-> TitleListWorktrees, desc |-> Sprintf("View all existing worktrees", <<>>)],
       [title |-> TitleAddWorktree, desc |-> Sprintf("Create a new worktree", <<>>)],
       [title |-> TitleRemoveWorktree, desc |-> Sprintf("Delete an existing worktree", <<>>)],
       [title |-> TitleQuit, desc |-> Sprintf("Exit the application", <<>>)] >>

BranchModeItems ==
    << [title |-> TitleUseExisting, desc |-> Sprintf("Select from existing branches", <<>>)],
       [title |-> TitleCreateNew,
        desc |-> Sprintf("Create a new branch and worktree", <<>>)] >>

\* m.message holds the format literal of the message; the branch and path put
\* into it are not kept
Message(f) == f

NoMessage == Message("")

\* NewModel
NewModel ==
    [ state |-> "menuView",
      list |-> [items |-> MenuItems, filteringEnabled |-> FALSE,
                Title |-> Sprintf("Git Worktree Manager", <<>>)],
      pathInput |-> <<>>,
      branchNameInput |-> <<>>,
      selectedBranch |-> <<>>,
      baseBranch |-> <<>>,
      selectedPrefix |-> <<>>,
      isNewBranch |-> FALSE,
      pathSuggestions |-> <<>>,
      branchNameSuggestions |-> <<>>,
      err |-> Nil,
      message |-> NoMessage,
      quitting |-> FALSE ]

\* nothing chosen yet: each field holds the chosen value, or nothing
NoChoice ==
    [branch |-> <<>>, base |-> <<>>, path |-> <<>>]

Init ==
    /\ m = NewModel
    /\ calls = <<>>
    /\ flowMode = "none"
    /\ flows = 0
    /\ chosen = NoChoice
    /\ gitIn = NoCall
    /\ gitOut = NoCall

\* the nil list.Item
NoItem == [title |-> <<>>, desc |-> Sprintf("nil", <<>>)]

\* what list.SelectedItem() can return when Enter is pressed: the item the user
\* moved the cursor to, or nil when the list is empty or the filter typed into a
\* filtering list leaves nothing visible. The cursor is the list widget's own
\* state; the choice is an input of the key press.
SelectedItem(mm) ==
    LET n == Len(mm.list.items)
        stops == IF mm.state \in {"branchNameSuggestionView", "pathSelectView"}
                 THEN {i \in 1..n : i <= MaxPick \/ i = n}
                 ELSE 1..n
    IN  {mm.list.items[i] : i \in stops}
        \cup (IF n = 0 \/ mm.list.filteringEnabled THEN {NoItem} ELSE {})

\* resetMenuItems
\* resetMenuItems leaving the list as it is
keepItems(mm) ==
    mm

resetMenuItems(mm) ==
    [mm EXCEPT !.list.items = MenuItems,
               !.list.filteringEnabled = FALSE,
               !.list.Title = Sprintf("Git Worktree Manager", <<>>)]

\* a git operation as recorded in calls
Call(op, args, ok) ==
    [op |-> op, args |-> args, ok |-> ok]

\* what a handler returns: the new model and the git operations it invoked
Ret(mm, cs) ==
    [m |-> mm, calls |-> cs]

(***************************************************************************)
(* internal/tui: handleEnter, one operator per case of the switch           *)
(***************************************************************************)
\* "%.7s"
Truncate7(x) ==
    SubSeq(x, 1, IF Len(x) < 7 THEN Len(x) ELSE 7)

branchOrDetached(wt) ==
    IF wt.Branch = <<>> THEN Detached ELSE wt.Branch

\* handleEnterMenu offering every entry of the listing for removal, the
\* primary worktree included
handleEnterMenuAll(mm, selected, lw) ==
    LET lwCall == Call("ListWorktrees", <<>>, lw.ok)
    IN  IF selected = NoItem THEN Ret(mm, <<>>)
        ELSE IF selected.title = TitleListWorktrees
        THEN IF ~lw.ok
             THEN Ret([mm EXCEPT !.err = "failed to list worktrees: %w",
                                 !.state = "menuView"], <<lwCall>>)
             ELSE Ret([mm EXCEPT
                         !.state = "listView",
                         !.list.items =
                             [i \in 1..Len(lw.wts) |->
                                 [title |-> lw.wts[i].Path,
                                  desc |-> Sprintf("Branch: %s | Commit: %.7s",
                                                   << branchOrDetached(lw.wts[i]),
                                                      Truncate7(lw.wts[i].Commit) >>)]],
                         !.list.Title = Sprintf("Worktrees (press ESC to go back)", <<>>)],
                      <<lwCall>>)
        ELSE IF selected.title = TitleAddWorktree
        THEN Ret([mm EXCEPT
                     !.list.items = BranchModeItems,
                     !.list.Title = Sprintf("Choose branch mode (press ESC to cancel)", <<>>),
                     !.state = "branchModeSelectView"], <<>>)
        ELSE IF selected.title = TitleRemoveWorktree
        THEN IF ~lw.ok
             THEN Ret([mm EXCEPT !.err = "failed to list worktrees: %w"], <<lwCall>>)
             ELSE IF Len(lw.wts) > 0
             THEN LET rest == lw.wts
                  IN  Ret([mm EXCEPT
                             !.list.items =
                                 [i \in 1..Len(rest) |->
                                     [title |-> rest[i].Path,
                                      desc |-> Sprintf("Branch: %s",
                                                       <<branchOrDetached(rest[i])>>)]],
                             !.list.Title =
                                 Sprintf("Select worktree to remove (press ESC to cancel)",
                                         <<>>),
                             !.state = "removeView"], <<lwCall>>)
             ELSE Ret([mm EXCEPT
                         !.message = Message("No additional worktrees to remove")],
                      <<lwCall>>)
        ELSE IF selected.title = TitleQuit
        THEN Ret([mm EXCEPT !.quitting = TRUE], <<>>)
        ELSE Ret(mm, <<>>)

\* case menuView; lw is what ListWorktrees answers if it is called
handleEnterMenu(mm, selected, lw) ==
    LET lwCall == Call("ListWorktrees", <<>>, lw.ok)
    IN  IF selected = NoItem THEN Ret(mm, <<>>)
        ELSE IF selected.title = TitleListWorktrees
        THEN IF ~lw.ok
             THEN Ret([mm EXCEPT !.err = "failed to list worktrees: %w",
                                 !.state = "menuView"], <<lwCall>>)
             ELSE Ret([mm EXCEPT
                         !.state = "listView",
                         !.list.items =
                             [i \in 1..Len(lw.wts) |->
                                 [title |-> lw.wts[i].Path,
                                  desc |-> Sprintf("Branch: %s | Commit: %.7s",
                                                   << branchOrDetached(lw.wts[i]),
                                                      Truncate7(lw.wts[i].Commit) >>)]],
                         !.list.Title = Sprintf("Worktrees (press ESC to go back)", <<>>)],
                      <<lwCall>>)
        ELSE IF selected.title = TitleAddWorktree
        THEN Ret([mm EXCEPT
                     !.list.items = BranchModeItems,
                     !.list.Title = Sprintf("Choose branch mode (press ESC to cancel)", <<>>),
                     !.state = "branchModeSelectView"], <<>>)
        ELSE IF selected.title = TitleRemoveWorktree
        THEN IF ~lw.ok
             THEN Ret([mm EXCEPT !.err = "failed to list worktrees: %w"], <<lwCall>>)
             ELSE IF Len(lw.wts) > 1
             THEN LET rest == SubSeq(lw.wts, 2, Len(lw.wts))
                  IN  Ret([mm EXCEPT
                             !.list.items =
                                 [i \in 1..Len(rest) |->
                                     [title |-> rest[i].Path,
                                      desc |-> Sprintf("Branch: %s",
                                                       <<branchOrDetached(rest[i])>>)]],
                             !.list.Title =
                                 Sprintf("Select worktree to remove (press ESC to cancel)",
                                         <<>>),
                             !.state = "removeView"], <<lwCall>>)
             ELSE Ret([mm EXCEPT
                         !.message = Message("No additional worktrees to remove")],
                      <<lwCall>>)
        ELSE IF selected.title = TitleQuit
        THEN Ret([mm EXCEPT !.quitting = TRUE], <<>>)
        ELSE Ret(mm, <<>>)

\* handleEnterList leaving the listing for the menu
handleEnterListBack(mm) ==
    Ret(resetMenuItems([mm EXCEPT !.state = "menuView"]), <<>>)

\* case listView
handleEnterList(mm) ==
    Ret(mm, <<>>)

\* case branchModeSelectView; lb is what ListBranches answers if it is called
handleEnterBranchModeSelect(mm, selected, lb) ==
    LET lbCall == Call("ListBranches", <<>>, lb.ok)
    IN  IF selected = NoItem THEN Ret(mm, <<>>)
        ELSE IF selected.title = TitleUseExisting
        THEN IF ~lb.ok
             THEN Ret([mm EXCEPT !.isNewBranch = FALSE,
                                 !.err = "failed to list branches: %w",
                                 !.state = "menuView"], <<lbCall>>)
             ELSE Ret([mm EXCEPT
                         !.isNewBranch = FALSE,
                         !.list.items =
                             [i \in 1..Len(lb.bs) |->
                                 [title |-> lb.bs[i], desc |-> Sprintf("", <<>>)]],
                         !.list.filteringEnabled = TRUE,
                         !.list.Title =
                             Sprintf("Select an existing branch (type to filter, ESC to cancel)",
                                     <<>>),
                         !.state = "addView"], <<lbCall>>)
        ELSE IF selected.title = TitleCreateNew
        THEN IF ~lb.ok
             THEN Ret([mm EXCEPT !.isNewBranch = TRUE,
                                 !.err = "failed to list branches: %w",
                                 !.state = "menuView"], <<lbCall>>)
             ELSE Ret([mm EXCEPT
                         !.isNewBranch = TRUE,
                         !.list.items =
                             [i \in 1..Len(lb.bs) |->
                                 [title |-> lb.bs[i],
                                  desc |-> Sprintf("Base branch for new branch", <<>>)]],
                         !.list.filteringEnabled = TRUE,
                         !.list.Title =
                             Sprintf("Select base branch (type to filter, ESC to cancel)",
                                     <<>>),
                         !.state = "newBranchBaseView"], <<lbCall>>)
        ELSE Ret(mm, <<>>)

\* case newBranchBaseView; sb is what SuggestBranchNames answers
handleEnterNewBranchBase(mm, selected, sb) ==
    LET sbCall == Call("SuggestBranchNames", <<>>, sb.ok)
    IN  IF selected = NoItem THEN Ret(mm, <<>>)
        ELSE LET m1 == [mm EXCEPT !.baseBranch = selected.title]
             IN  IF ~sb.ok
                 THEN Ret(resetMenuItems([m1 EXCEPT !.err = "failed to list branches: %w",
                                                    !.state = "menuView"]),
                          <<sbCall>>)
                 ELSE Ret([m1 EXCEPT
                             !.branchNameSuggestions = sb.suggestions,
                             !.list.items =
                                 [i \in 1..Len(sb.suggestions) |->
                                     [title |-> IF sb.suggestions[i].IsCustom
                                                THEN TitleCustomName
                                                ELSE sb.suggestions[i].Name,
                                      desc |-> sb.suggestions[i].Description]],
                             !.list.filteringEnabled = FALSE,
                             !.list.Title =
                                 Sprintf("Select branch name pattern (ESC to cancel)", <<>>),
                             !.state = "branchNameSuggestionView"], <<sbCall>>)

\* the index (from 1) of the first item equal to the selected one, 0 when none:
\* the loop "for i, item := range m.list.Items()"
selectedIndex(l, selected) ==
    LET hits == {i \in 1..Len(l.items) : l.items[i] = selected}
    IN  IF hits = {} THEN 0 ELSE CHOOSE i \in hits : \A j \in hits : i <= j

\* handleEnterBranchNameSuggestion leaving the text input as it was
handleEnterBranchNameSuggestionUnfilled(mm, selected) ==
    LET idx == selectedIndex(mm.list, selected)
    IN  IF selected = NoItem THEN Ret(mm, <<>>)
        ELSE IF idx < 1 \/ idx > Len(mm.branchNameSuggestions) THEN Ret(mm, <<>>)
        ELSE LET suggestion == mm.branchNameSuggestions[idx]
             IN  Ret([mm EXCEPT !.selectedPrefix = suggestion.Name,
                                !.state = "newBranchNameView"], <<>>)

\* case branchNameSuggestionView
handleEnterBranchNameSuggestion(mm, selected) ==
    LET idx == selectedIndex(mm.list, selected)
    IN  IF selected = NoItem THEN Ret(mm, <<>>)
        ELSE IF idx < 1 \/ idx > Len(mm.branchNameSuggestions) THEN Ret(mm, <<>>)
        ELSE LET suggestion == mm.branchNameSuggestions[idx]
             IN  Ret([mm EXCEPT !.selectedPrefix = suggestion.Name,
                                !.branchNameInput = suggestion.Name,
                                !.state = "newBranchNameView"], <<>>)

\* the items of the path selection screen; wd is what os.Getwd answers
pathItems(suggestions, wd) ==
    [i \in 1..Len(suggestions) |->
        LET sug == suggestions[i]
        IN  [title |-> IF sug.IsCustom THEN TitleCustomPath ELSE sug.Path,
             desc |-> IF ~sug.IsCustom /\ wd.ok
                      THEN Sprintf(sug.Description.fmt \o " -> %s",
                                   Append(sug.Description.args, Abs(wd.dir, sug.Path)))
                      ELSE sug.Description]]

\* handleEnterNewBranchName without the check of the empty name
handleEnterNewBranchNameUnchecked(mm, sp, wd) ==
    LET newBranchName == mm.branchNameInput
        spCall == Call("SuggestPaths", <<newBranchName>>, sp.ok)
        m1 == [mm EXCEPT !.selectedBranch = newBranchName]
    IN  IF ~sp.ok
        THEN Ret(resetMenuItems([m1 EXCEPT !.err = "failed to list worktrees: %w",
                                           !.state = "menuView"]),
                 <<spCall>>)
        ELSE Ret([m1 EXCEPT
                    !.pathSuggestions = sp.suggestions,
                    !.list.items = pathItems(sp.suggestions, wd),
                    !.list.Title =
                        Sprintf("Select path for new branch '%s' (ESC to cancel)",
                                <<newBranchName>>),
                    !.state = "pathSelectView"], <<spCall>>)

\* case newBranchNameView; sp is what SuggestPaths answers
handleEnterNewBranchName(mm, sp, wd) ==
    LET newBranchName == mm.branchNameInput
        spCall == Call("SuggestPaths", <<newBranchName>>, sp.ok)
    IN  IF newBranchName = <<>>
        THEN Ret(resetMenuItems([mm EXCEPT !.err = "branch name cannot be empty",
                                           !.state = "menuView"]), <<>>)
        ELSE LET m1 == [mm EXCEPT !.selectedBranch = newBranchName]
             IN  IF ~sp.ok
                 THEN Ret(resetMenuItems([m1 EXCEPT !.err = "failed to list worktrees: %w",
                                                    !.state = "menuView"]),
                          <<spCall>>)
                 ELSE Ret([m1 EXCEPT
                             !.pathSuggestions = sp.suggestions,
                             !.list.items = pathItems(sp.suggestions, wd),
                             !.list.Title =
                                 Sprintf("Select path for new branch '%s' (ESC to cancel)",
                                         <<newBranchName>>),
                             !.state = "pathSelectView"], <<spCall>>)

\* handleEnterAdd without recording the selected branch
handleEnterAddUnrecorded(mm, selected, sp, wd) ==
    LET branch == selected.title
        spCall == Call("SuggestPaths", <<branch>>, sp.ok)
    IN  IF selected = NoItem THEN Ret(mm, <<>>)
        ELSE LET m1 == mm
             IN  IF ~sp.ok
                 THEN Ret([m1 EXCEPT !.err = "failed to list worktrees: %w",
                                     !.state = "menuView"], <<spCall>>)
                 ELSE Ret([m1 EXCEPT
                             !.pathSuggestions = sp.suggestions,
                             !.list.items = pathItems(sp.suggestions, wd),
                             !.list.Title = Sprintf("Select path for '%s' (ESC to cancel)",
                                                    <<branch>>),
                             !.state = "pathSelectView"], <<spCall>>)

\* case addView; sp is what SuggestPaths answers
handleEnterAdd(mm, selected, sp, wd) ==
    LET branch == selected.title
        spCall == Call("SuggestPaths", <<branch>>, sp.ok)
    IN  IF selected = NoItem THEN Ret(mm, <<>>)
        ELSE LET m1 == [mm EXCEPT !.selectedBranch = branch]
             IN  IF ~sp.ok
                 THEN Ret([m1 EXCEPT !.err = "failed to list worktrees: %w",
                                     !.state = "menuView"], <<spCall>>)
                 ELSE Ret([m1 EXCEPT
                             !.pathSuggestions = sp.suggestions,
                             !.list.items = pathItems(sp.suggestions, wd),
                             !.list.Title = Sprintf("Select path for '%s' (ESC to cancel)",
                                                    <<branch>>),
                             !.state = "pathSelectView"], <<spCall>>)

\* commitAdd choosing the operation by a recorded base branch instead of
\* the isNewBranch flag
commitAddByBase(mm, path, ok) ==
    IF mm.baseBranch # <<>>
    THEN Ret([mm EXCEPT
                !.err = IF ok THEN @ ELSE "failed to add worktree with new branch: %s",
                !.message =
                    IF ok
                    THEN Message("Successfully created branch '%s' and worktree at %s")
                    ELSE @],
             <<Call("AddWorktreeWithNewBranch",
                    <<path, mm.selectedBranch, mm.baseBranch>>, ok)>>)
    ELSE Ret([mm EXCEPT
                !.err = IF ok THEN @ ELSE "failed to add worktree: %s",
                !.message = IF ok
                            THEN Message("Successfully added worktree at %s")
                            ELSE @],
             <<Call("AddWorktree", <<path, mm.selectedBranch>>, ok)>>)

\* the commit shared by pathSelectView and customPathView: the add operation
\* chosen by isNewBranch, its outcome recorded
commitAdd(mm, path, ok) ==
    IF mm.isNewBranch
    THEN Ret([mm EXCEPT
                !.err = IF ok THEN @ ELSE "failed to add worktree with new branch: %s",
                !.message =
                    IF ok
                    THEN Message("Successfully created branch '%s' and worktree at %s")
                    ELSE @],
             <<Call("AddWorktreeWithNewBranch",
                    <<path, mm.selectedBranch, mm.baseBranch>>, ok)>>)
    ELSE Ret([mm EXCEPT
                !.err = IF ok THEN @ ELSE "failed to add worktree: %s",
                !.message = IF ok
                            THEN Message("Successfully added worktree at %s")
                            ELSE @],
             <<Call("AddWorktree", <<path, mm.selectedBranch>>, ok)>>)

\* case pathSelectView; ok is whether the add operation succeeds
handleEnterPathSelect(mm, selected, ok) ==
    LET idx == selectedIndex(mm.list, selected)
    IN  IF selected = NoItem THEN Ret(mm, <<>>)
        ELSE IF idx < 1 \/ idx > Len(mm.pathSuggestions) THEN Ret(mm, <<>>)
        ELSE LET suggestion == mm.pathSuggestions[idx]
             IN  IF suggestion.IsCustom
                 THEN Ret([mm EXCEPT !.pathInput = <<>>, !.state = "customPathView"], <<>>)
                 ELSE LET r == commitAdd(mm, suggestion.Path, ok)
                      IN  Ret(resetMenuItems([r.m EXCEPT !.state = "menuView"]), r.calls)

\* handleEnterCustomPath without the check of the empty path
handleEnterCustomPathUnchecked(mm, ok) ==
    LET r == commitAdd(mm, mm.pathInput, ok)
    IN  Ret(resetMenuItems([r.m EXCEPT !.pathInput = <<>>, !.state = "menuView"]),
            r.calls)

\* case customPathView
handleEnterCustomPath(mm, ok) ==
    LET path == mm.pathInput
    IN  IF path = <<>>
        THEN Ret(resetMenuItems([mm EXCEPT !.err = "path cannot be empty",
                                           !.state = "menuView"]), <<>>)
        ELSE LET r == commitAdd(mm, path, ok)
             IN  Ret(resetMenuItems([r.m EXCEPT !.pathInput = <<>>,
                                                !.state = "menuView"]), r.calls)

\* handleEnterRemove staying on the screen when the removal fails
handleEnterRemoveStay(mm, selected, ok) ==
    LET path == selected.title
    IN  IF selected = NoItem THEN Ret(mm, <<>>)
        ELSE IF ok
        THEN Ret(resetMenuItems(
                     [mm EXCEPT
                         !.message = Message("Successfully removed worktree at %s"),
                         !.state = "menuView"]),
                 <<Call("RemoveWorktree", <<path>>, ok)>>)
        ELSE Ret([mm EXCEPT !.err = "failed to remove worktree: %s"],
                 <<Call("RemoveWorktree", <<path>>, ok)>>)

\* case removeView
handleEnterRemove(mm, selected, ok) ==
    LET path == selected.title
    IN  IF selected = NoItem THEN Ret(mm, <<>>)
        ELSE Ret(resetMenuItems(
                     [mm EXCEPT
                         !.err = IF ok THEN @ ELSE "failed to remove worktree: %s",
                         !.message =
                             IF ok
                             THEN Message("Successfully removed worktree at %s")
                             ELSE @,
                         !.state = "menuView"]),
                 <<Call("RemoveWorktree", <<path>>, ok)>>)

(***************************************************************************)
(* internal/tui: Update                                                    *)
(***************************************************************************)
\* the quit keys leaving a recorded error and message in place
updateQuitKeyKeep(mm) ==
    IF mm.state = "menuView"
    THEN [mm EXCEPT !.quitting = TRUE]
    ELSE [mm EXCEPT !.state = "menuView"]

\* esc without the test of the current screen
updateEscAlways(mm) ==
    resetMenuItems([mm EXCEPT !.state = "menuView", !.err = Nil,
                              !.message = NoMessage])

\* the case of q and ctrl+c without the return to the menu
updateQuitKeyNoMenu(mm) ==
    IF mm.state = "menuView"
    THEN [mm EXCEPT !.quitting = TRUE]
    ELSE [mm EXCEPT !.err = Nil, !.message = NoMessage]

\* case "ctrl+c", "q": the two keys share the case
updateQuitKey(mm) ==
    IF mm.state = "menuView"
    THEN [mm EXCEPT !.quitting = TRUE]
    ELSE [mm EXCEPT !.state = "menuView", !.err = Nil, !.message = NoMessage]

\* case "esc"
updateEsc(mm) ==
    IF mm.state # "menuView"
    THEN resetMenuItems([mm EXCEPT !.state = "menuView", !.err = Nil,
                                   !.message = NoMessage])
    ELSE mm

\* what SuggestPaths(branch) can answer: ListWorktrees fails, or a suggestion list
SuggestPathsOutcomes(branch, wd) ==
    {[ok |-> FALSE, suggestions |-> <<>>]} \cup
    {[ok |-> TRUE, suggestions |-> x] :
        x \in UNION {SuggestPaths(l, branch, getRepoName(wd)) : l \in WorktreeListings}}

\* what SuggestBranchNames() can answer: ListBranches fails, or a suggestion list
SuggestBranchNamesOutcomes ==
    {[ok |-> FALSE, suggestions |-> <<>>]} \cup
    {[ok |-> TRUE, suggestions |-> x] :
        x \in UNION {SuggestBranchNames(l) : l \in BranchListings}}

\* the handler's result becomes the model
Handled(r) ==
    /\ m' = r.m
    /\ calls' = r.calls

\* the mode of the flow under way: none once the screen is the menu again
flowModeAfter(mode) ==
    flowMode' = IF m'.state = "menuView" THEN "none" ELSE mode

\* the choices of the flow under way: none once the screen is the menu again
chosenAfter(c) ==
    chosen' = IF m'.state = "menuView" THEN NoChoice ELSE c

KeyQuit ==
    /\ ~m.quitting
    /\ Handled(Ret(updateQuitKey(m), <<>>))
    /\ flowModeAfter(flowMode)
    /\ chosenAfter(chosen)
    /\ UNCHANGED <<flows, gitIn, gitOut>>

KeyEsc ==
    /\ ~m.quitting
    /\ Handled(Ret(updateEsc(m), <<>>))
    /\ flowModeAfter(flowMode)
    /\ chosenAfter(chosen)
    /\ UNCHANGED <<flows, gitIn, gitOut>>

\* Enter on the menu with `selected` under the cursor, ListWorktrees answering lw
EnterMenuWith(selected, lw) ==
    /\ ~m.quitting
    /\ m.state = "menuView"
    /\ selected \in SelectedItem(m)
    /\ selected.title \in {TitleListWorktrees, TitleAddWorktree, TitleRemoveWorktree}
          => flows < MaxFlows
    /\ Handled(handleEnterMenu(m, selected, lw))
    /\ flows' = IF selected.title \in {TitleListWorktrees, TitleAddWorktree,
                                        TitleRemoveWorktree}
                THEN flows + 1 ELSE flows
    /\ flowModeAfter("none")
    /\ chosenAfter(NoChoice)
    /\ UNCHANGED gitVars

EnterMenu ==
    \E selected \in SelectedItem(m), lw \in ListWorktreesOutcomes :
       EnterMenuWith(selected, lw)

EnterList ==
    /\ ~m.quitting
    /\ m.state = "listView"
    /\ Handled(handleEnterList(m))
    /\ flowModeAfter(flowMode)
    /\ chosenAfter(chosen)
    /\ UNCHANGED <<flows, gitIn, gitOut>>

EnterBranchModeSelect ==
    /\ ~m.quitting
    /\ m.state = "branchModeSelectView"
    /\ \E selected \in SelectedItem(m), lb \in ListBranchesOutcomes :
          /\ Handled(handleEnterBranchModeSelect(m, selected, lb))
          /\ flowModeAfter(IF selected.title = TitleUseExisting THEN "existing"
                           ELSE IF selected.title = TitleCreateNew THEN "new"
                           ELSE flowMode)
    /\ chosenAfter(chosen)
    /\ UNCHANGED <<flows, gitIn, gitOut>>

EnterNewBranchBase ==
    /\ ~m.quitting
    /\ m.state = "newBranchBaseView"
    /\ \E selected \in SelectedItem(m), sb \in SuggestBranchNamesOutcomes :
          /\ Handled(handleEnterNewBranchBase(m, selected, sb))
          /\ chosenAfter(IF selected = NoItem THEN chosen
                         ELSE [chosen EXCEPT !.base = <<selected.title>>])
    /\ flowModeAfter(flowMode)
    /\ UNCHANGED <<flows, gitIn, gitOut>>

EnterBranchNameSuggestion ==
    /\ ~m.quitting
    /\ m.state = "branchNameSuggestionView"
    /\ \E selected \in SelectedItem(m) :
          /\ Handled(handleEnterBranchNameSuggestion(m, selected))
          /\ chosenAfter(IF selected = NoItem THEN chosen
                         ELSE [chosen EXCEPT
                                  !.branch = <<IF selected.title = TitleCustomName
                                               THEN <<>> ELSE selected.title>>])
    /\ flowModeAfter(flowMode)
    /\ UNCHANGED <<flows, gitIn, gitOut>>

EnterNewBranchName ==
    /\ ~m.quitting
    /\ m.state = "newBranchNameView"
    /\ \E wd \in GetwdOutcomes :
          \E sp \in SuggestPathsOutcomes(m.branchNameInput, wd) :
             Handled(handleEnterNewBranchName(m, sp, wd))
    /\ flowModeAfter(flowMode)
    /\ chosenAfter(chosen)
    /\ UNCHANGED <<flows, gitIn, gitOut>>

EnterAdd ==
    /\ ~m.quitting
    /\ m.state = "addView"
    /\ \E selected \in SelectedItem(m), wd \in GetwdOutcomes :
          \E sp \in SuggestPathsOutcomes(selected.title, wd) :
             /\ Handled(handleEnterAdd(m, selected, sp, wd))
             /\ chosenAfter(IF selected = NoItem THEN chosen
                            ELSE [chosen EXCEPT !.branch = <<selected.title>>])
    /\ flowModeAfter(flowMode)
    /\ UNCHANGED <<flows, gitIn, gitOut>>

EnterPathSelect ==
    /\ ~m.quitting
    /\ m.state = "pathSelectView"
    /\ \E selected \in SelectedItem(m), ok \in BOOLEAN :
          /\ Handled(handleEnterPathSelect(m, selected, ok))
          /\ chosenAfter(IF selected = NoItem THEN chosen
                         ELSE [chosen EXCEPT
                                  !.path = <<IF selected.title = TitleCustomPath
                                             THEN <<>> ELSE selected.title>>])
    /\ flowModeAfter(flowMode)
    /\ UNCHANGED <<flows, gitIn, gitOut>>

EnterCustomPath ==
    /\ ~m.quitting
    /\ m.state = "customPathView"
    /\ \E ok \in BOOLEAN : Handled(handleEnterCustomPath(m, ok))
    /\ flowModeAfter(flowMode)
    /\ chosenAfter(chosen)
    /\ UNCHANGED <<flows, gitIn, gitOut>>

EnterRemove ==
    /\ ~m.quitting
    /\ m.state = "removeView"
    /\ \E selected \in SelectedItem(m), ok \in BOOLEAN :
          Handled(handleEnterRemove(m, selected, ok))
    /\ flowModeAfter(flowMode)
    /\ chosenAfter(chosen)
    /\ UNCHANGED <<flows, gitIn, gitOut>>

\* the number of hand-typed characters in a text input
RECURSIVE typedCount(_)
typedCount(x) ==
    IF x = <<>> THEN 0
    ELSE (IF Head(x) \in TypedChars THEN 1 ELSE 0) + typedCount(Tail(x))

\* textinput.Update on a character key: the character is appended
textInputUpdate(x) ==
    {Append(x, c) : c \in {d \in TypedChars : typedCount(x) < MaxTyped}}

\* a character key in newBranchNameView goes to branchNameInput.Update
BranchNameKey ==
    /\ ~m.quitting
    /\ m.state = "newBranchNameView"
    /\ \E x \in textInputUpdate(m.branchNameInput) :
          /\ m' = [m EXCEPT !.branchNameInput = x]
          /\ chosenAfter([chosen EXCEPT !.branch = <<Append(@[1], x[Len(x)])>>])
    /\ calls' = <<>>
    /\ flowModeAfter(flowMode)
    /\ UNCHANGED <<flows, gitIn, gitOut>>

\* a character key in customPathView goes to pathInput.Update
PathKey ==
    /\ ~m.quitting
    /\ m.state = "customPathView"
    /\ \E x \in textInputUpdate(m.pathInput) :
          /\ m' = [m EXCEPT !.pathInput = x]
          /\ chosenAfter([chosen EXCEPT !.path = <<Append(@[1], x[Len(x)])>>])
    /\ calls' = <<>>
    /\ flowModeAfter(flowMode)
    /\ UNCHANGED <<flows, gitIn, gitOut>>

Next ==
    \/ KeyQuit
    \/ KeyEsc
    \/ EnterMenu
    \/ EnterList
    \/ EnterBranchModeSelect
    \/ EnterNewBranchBase
    \/ EnterBranchNameSuggestion
    \/ EnterNewBranchName
    \/ EnterAdd
    \/ EnterPathSelect
    \/ EnterCustomPath
    \/ EnterRemove
    \/ BranchNameKey
    \/ PathKey

Spec == Init /\ [][Next]_vars

(***************************************************************************)
(* Properties                                                              *)
(***************************************************************************)
AddOps == {"AddWorktree", "AddWorktreeWithNewBranch"}

RemoveItem == MenuItems[3]

\* the operations named in ops that the sequence of calls cs holds
Invoked(cs, ops) ==
    {i \in 1..Len(cs) : cs[i].op \in ops}

\* an Enter that commits an add: pathSelectView or customPathView, and an add
\* operation was invoked
AddCommit ==
    /\ EnterPathSelect \/ EnterCustomPath
    /\ Invoked(calls', AddOps) # {}

\* an Enter that commits a removal
RemoveCommit ==
    /\ EnterRemove
    /\ Invoked(calls', {"RemoveWorktree"}) # {}

\* C1: Enter in customPathView with an empty path invokes no add operation,
\* records the validation error "path cannot be empty" and returns to the menu.
C1_EmptyCustomPath ==
    [][(EnterCustomPath /\ m.pathInput = <<>>)
          => /\ Invoked(calls', AddOps) = {}
             /\ m'.err = "path cannot be empty"
             /\ m'.state = "menuView"]_vars

\* the menu is shown with the validation error of the empty path
C1_Witness ==
    /\ m.state = "menuView"
    /\ m.err = "path cannot be empty"
    /\ calls = <<>>

\* C2: an add commit invokes AddWorktreeWithNewBranch exactly when the latest
\* choice in branchModeSelectView was "Create new branch", and AddWorktree
\* when it was "Use existing branch"; it invokes nothing else.
C2_OperationFollowsMode ==
    [][AddCommit
          => /\ flowMode \in {"existing", "new"}
             /\ Len(calls') = 1
             /\ calls'[1].op = IF flowMode = "new" THEN "AddWorktreeWithNewBranch"
                               ELSE "AddWorktree"]_vars

\* AddWorktree was just invoked although an earlier flow, which chose
\* "Create new branch", has left its base branch behind
C2_Witness ==
    /\ calls # <<>>
    /\ calls[1].op = "AddWorktree"
    /\ m.baseBranch # <<>>
    /\ m.state = "menuView"

\* C3: whenever the menu is shown, selectedBranch, baseBranch, selectedPrefix
\* and isNewBranch are cleared.
C3_SelectionClearedAtMenu ==
    m.state = "menuView"
        => /\ m.selectedBranch = <<>>
           /\ m.baseBranch = <<>>
           /\ m.selectedPrefix = <<>>
           /\ ~m.isNewBranch

\* C4: an error and a message are never recorded together.
C4_ErrXorMessage ==
    ~(m.err # Nil /\ m.message # NoMessage)

\* C5: after an Update that invoked an add or a remove operation which
\* succeeded, no error is recorded.
C5_NoStaleError ==
    (/\ calls # <<>>
     /\ calls[Len(calls)].op \in AddOps \cup {"RemoveWorktree"}
     /\ calls[Len(calls)].ok)
        => m.err = Nil

\* C6: Enter on "Remove Worktree" in the menu, when the listing has at most
\* one entry, records the message "No additional worktrees to remove", stays
\* in the menu and does not invoke RemoveWorktree.
C6_NothingToRemove ==
    [][\A lw \in ListWorktreesOutcomes :
          (EnterMenuWith(RemoveItem, lw) /\ lw.ok /\ Len(lw.wts) <= 1)
             => /\ m'.message = Message("No additional worktrees to remove")
                /\ m'.state = "menuView"
                /\ Invoked(calls', {"RemoveWorktree"}) = {}]_vars

\* the menu is shown with the message, after the listing was fetched
C6_Witness ==
    /\ m.state = "menuView"
    /\ m.message = Message("No additional worktrees to remove")
    /\ calls = <<Call("ListWorktrees", <<>>, TRUE)>>

\* the paths shown by the items of a list
Titles(l) ==
    {l.items[i].title : i \in 1..Len(l.items)}

\* C7: removeView is entered with exactly the worktrees at index 1 and above
\* of the listing fetched on entry, its items stay while it is shown, and
\* RemoveWorktree is only invoked in removeView, with the path of one of
\* those items, which is never the path of the primary worktree.
C7_RemoveOnlyAdditional ==
    [][/\ \A lw \in ListWorktreesOutcomes :
             (EnterMenuWith(RemoveItem, lw) /\ m'.state = "removeView")
                => /\ lw.ok
                   /\ Titles(m'.list) =
                          {lw.wts[i].Path : i \in 2..Len(lw.wts)}
                   /\ PrimaryWorktree.Path \notin Titles(m'.list)
       /\ (m.state = "removeView" /\ m'.state = "removeView")
             => m'.list.items = m.list.items
       /\ \A i \in Invoked(calls', {"RemoveWorktree"}) :
             /\ m.state = "removeView"
             /\ calls'[i].args[1] \in Titles(m.list)
             /\ calls'[i].args[1] # PrimaryWorktree.Path]_vars

\* RemoveWorktree was just invoked
C7_Witness ==
    /\ calls # <<>>
    /\ calls[1].op = "RemoveWorktree"
    /\ calls[1].args[1] \in {w.Path : w \in ExtraWorktrees}

\* what a commit records on success and on failure
SuccessMessage(op) ==
    IF op = "AddWorktree" THEN Message("Successfully added worktree at %s")
    ELSE IF op = "AddWorktreeWithNewBranch"
    THEN Message("Successfully created branch '%s' and worktree at %s")
    ELSE Message("Successfully removed worktree at %s")

FailureErr(op) ==
    IF op = "AddWorktree" THEN "failed to add worktree: %s"
    ELSE IF op = "AddWorktreeWithNewBranch"
    THEN "failed to add worktree with new branch: %s"
    ELSE "failed to remove worktree: %s"

\* C8: every commit, of an add or of a removal, ends in the menu with the
\* list showing the four standard items; a success is recorded in message
\* and a failure in err.
C8_CommitEndsAtMenu ==
    [][(AddCommit \/ RemoveCommit)
          => /\ m'.state = "menuView"
             /\ m'.list.items = MenuItems
             /\ Len(calls') = 1
             /\ calls'[1].ok => m'.message = SuccessMessage(calls'[1].op)
             /\ ~calls'[1].ok => m'.err = FailureErr(calls'[1].op)]_vars

\* an add with a new branch has just failed and the menu shows its error
C8_Witness ==
    /\ Len(calls) = 1
    /\ calls[1].op = "AddWorktreeWithNewBranch"
    /\ ~calls[1].ok
    /\ m.state = "menuView"
    /\ m.list.items = MenuItems
    /\ m.err = FailureErr("AddWorktreeWithNewBranch")

\* C9: q or ctrl+c in the menu terminates the program and it terminates from
\* no other screen; in every other screen q, ctrl+c and esc return to the
\* menu, clear err and message and invoke no git operation.
C9_QuitKeys ==
    [][/\ (KeyQuit /\ m.state = "menuView") => m'.quitting
       /\ ((KeyQuit \/ KeyEsc) /\ m.state # "menuView")
             => /\ m'.state = "menuView"
                /\ ~m'.quitting
                /\ m'.err = Nil
                /\ m'.message = NoMessage
                /\ calls' = <<>>
       /\ (m'.quitting /\ ~m.quitting) => m.state = "menuView"]_vars

\* the menu is shown with the list of branch name patterns still in place and
\* a typed branch name: q was pressed in a screen of the new branch flow
C9_Witness ==
    /\ m.state = "menuView"
    /\ ~m.quitting
    /\ TitleCustomName \in Titles(m.list)
    /\ typedCount(m.branchNameInput) > 0
    /\ m.err = Nil
    /\ m.message = NoMessage

\* C10: esc in the menu changes nothing: state, list, inputs, err and message
\* stay as they are and the program does not terminate.
C10_EscAtMenuNoOp ==
    [][(KeyEsc /\ m.state = "menuView") => m' = m]_vars

\* the standard menu shows a listing error although the last key invoked no
\* operation: the key was esc, and the error outlived it
C10_Witness ==
    /\ m.state = "menuView"
    /\ ~m.quitting
    /\ m.list.items = MenuItems
    /\ ~m.list.filteringEnabled
    /\ m.err = "failed to list worktrees: %w"
    /\ calls = <<>>

\* the error an operation returns when it fails: SuggestPaths passes on the
\* error of ListWorktrees, SuggestBranchNames the error of ListBranches
ErrorOf(op) ==
    IF op \in {"ListWorktrees", "SuggestPaths"} THEN "failed to list worktrees: %w"
    ELSE IF op \in {"ListBranches", "SuggestBranchNames"}
    THEN "failed to list branches: %w"
    ELSE FailureErr(op)

\* C11: when a git operation invoked by a key press fails, it is the only
\* operation of that key press, its error becomes the current error and the
\* screen after the key press is the menu; a commit invokes its add or remove
\* operation exactly once.
C11_FailureEndsAtMenu ==
    [][/\ \A i \in 1..Len(calls') :
             ~calls'[i].ok
                => /\ Len(calls') = 1
                   /\ m'.err = ErrorOf(calls'[i].op)
                   /\ m'.state = "menuView"
       /\ (AddCommit \/ RemoveCommit)
             => Cardinality(Invoked(calls', AddOps \cup {"RemoveWorktree"})) = 1]_vars

\* the menu is shown after SuggestBranchNames has just failed
C11_Witness ==
    /\ Len(calls) = 1
    /\ calls[1].op = "SuggestBranchNames"
    /\ ~calls[1].ok
    /\ m.err = "failed to list branches: %w"
    /\ m.state = "menuView"

\* C12: Enter in newBranchNameView with an empty name records the validation
\* error and returns to the menu without invoking anything; with a name it
\* records the name as selectedBranch and asks SuggestPaths for it once, then
\* shows pathSelectView, or the menu with the error when SuggestPaths fails.
C12_NewBranchNameEntry ==
    [][EnterNewBranchName
          => IF m.branchNameInput = <<>>
             THEN /\ m'.err = "branch name cannot be empty"
                  /\ m'.state = "menuView"
                  /\ calls' = <<>>
                  /\ m'.selectedBranch = m.selectedBranch
             ELSE /\ m'.selectedBranch = m.branchNameInput
                  /\ Len(calls') = 1
                  /\ calls'[1].op = "SuggestPaths"
                  /\ calls'[1].args = <<m.branchNameInput>>
                  /\ IF calls'[1].ok
                     THEN m'.state = "pathSelectView" /\ m'.err = m.err
                     ELSE m'.state = "menuView" /\ m'.err = ErrorOf("SuggestPaths")]_vars

\* the menu is shown with the validation error of the empty branch name
C12_Witness ==
    /\ m.state = "menuView"
    /\ m.err = "branch name cannot be empty"
    /\ calls = <<>>

\* a press of Enter, on whichever screen
EnterStep ==
    \/ EnterMenu \/ EnterList \/ EnterBranchModeSelect \/ EnterNewBranchBase
    \/ EnterBranchNameSuggestion \/ EnterNewBranchName \/ EnterAdd
    \/ EnterPathSelect \/ EnterCustomPath \/ EnterRemove

\* the screen changes of the table, as pairs <<from, to>>
EnterTable ==
    { <<"menuView", "listView">>, <<"menuView", "branchModeSelectView">>,
      <<"menuView", "removeView">>,
      <<"branchModeSelectView", "addView">>,
      <<"branchModeSelectView", "newBranchBaseView">>,
      <<"addView", "pathSelectView">>,
      <<"newBranchBaseView", "branchNameSuggestionView">>,
      <<"branchNameSuggestionView", "newBranchNameView">>,
      <<"newBranchNameView", "pathSelectView">>,
      <<"pathSelectView", "customPathView">>, <<"pathSelectView", "menuView">>,
      <<"customPathView", "menuView">>, <<"removeView", "menuView">> }

\* the key press ends in the menu because an operation failed or an input
\* was empty
ErrorReturn ==
    /\ m'.state = "menuView"
    /\ \/ \E i \in 1..Len(calls') : ~calls'[i].ok
       \/ m.state = "newBranchNameView" /\ m.branchNameInput = <<>>
       \/ m.state = "customPathView" /\ m.pathInput = <<>>

\* C13: under Enter the screen changes only along the table, or to the menu
\* on an error, or not at all; the program terminates only from the menu; and
\* pathSelectView is entered only from addView with the chosen existing
\* branch recorded, or from newBranchNameView with the typed name and a base
\* branch recorded in a flow that chose "Create new branch".
C13_EnterTransitions ==
    [][/\ \/ <<m.state, m'.state>> \in EnterTable /\ ~m'.quitting
          \/ m.state = "menuView" /\ m'.state = "menuView" /\ m'.quitting
          \/ ErrorReturn /\ ~m'.quitting
          \/ m'.state = m.state /\ ~m'.quitting
          \/ ~EnterStep
       /\ (m'.state = "pathSelectView" /\ m.state # "pathSelectView")
             => \/ /\ m.state = "addView"
                   /\ flowMode = "existing"
                   /\ m'.selectedBranch \in Titles(m.list)
                   /\ m'.selectedBranch # <<>>
                \/ /\ m.state = "newBranchNameView"
                   /\ flowMode = "new"
                   /\ m'.selectedBranch = m.branchNameInput
                   /\ m'.selectedBranch # <<>>
                   /\ m'.baseBranch \in BranchNames]_vars

\* pathSelectView is shown in a flow that creates a new branch
C13_Witness ==
    /\ m.state = "pathSelectView"
    /\ flowMode = "new"
    /\ m.selectedBranch # <<>>
    /\ m.baseBranch # <<>>

(***************************************************************************)
(* internal/git called directly: the suggestion functions applied to        *)
(* listings richer than the ones the screens are driven with                *)
(***************************************************************************)
\* linked worktrees of the listings: each path holds its branch name verbatim,
\* one worktree is detached
GitExtraWorktrees ==
    { [Path |-> <<"/", "w", "/", "x", "y">>, Branch |-> <<"x", "y">>, Commit |-> CommitHash],
      [Path |-> <<"/", "x", "y">>, Branch |-> <<"x">>, Commit |-> CommitHash],
      [Path |-> <<"/", "x", "y", "y">>, Branch |-> <<"x", "y", "y">>, Commit |-> CommitHash],
      [Path |-> <<"/", "d">>, Branch |-> <<>>, Commit |-> CommitHash],
      [Path |-> <<"/", "a", "b">>, Branch |-> <<"b">>, Commit |-> CommitHash],
      [Path |-> <<"/", "c", "a">>, Branch |-> <<"c">>, Commit |-> CommitHash],
      [Path |-> <<"/", "a", "d">>, Branch |-> <<"d">>, Commit |-> CommitHash] }

\* the worktrees of the README: ../feature-foo and ../feature-bar
ExampleWorktrees ==
    << PrimaryWorktree,
       [Path |-> <<".", ".", "/", "f", "e", "a", "t", "u", "r", "e", "-", "f", "o", "o">>, Branch |-> <<"f", "e", "a", "t", "u", "r", "e", "-", "f", "o", "o">>, Commit |-> CommitHash],
       [Path |-> <<".", ".", "/", "f", "e", "a", "t", "u", "r", "e", "-", "b", "a", "r">>, Branch |-> <<"f", "e", "a", "t", "u", "r", "e", "-", "b", "a", "r">>, Commit |-> CommitHash] >>

ExampleTarget == <<"f", "e", "a", "t", "u", "r", "e", "-", "b", "a", "z">>

\* the primary worktree: in /r, or in a directory named after its branch
GitPrimaryWorktrees ==
    { PrimaryWorktree,
      [Path |-> <<"/", "m", "a", "i", "n">>, Branch |-> Main, Commit |-> CommitHash] }

GitWorktreeListings ==
    {<<p>> \o x : p \in GitPrimaryWorktrees,
                  x \in DistinctSeqs(GitExtraWorktrees, MaxGitWorktrees)}
        \cup {ExampleWorktrees}

\* the branches suggestions are asked for
GitTargets ==
    {<<"x", "y">>, <<"a">>, <<"f", "/", "z">>, ExampleTarget}

GitBranchNames ==
    {Main, <<"f", "/", "a">>, <<"f", "/", "b">>, <<"c", "h", "o", "r", "e", "/", "a">>, <<"c", "h", "o", "r", "e", "/", "b">>, <<"x">>}

\* the branch listing of the worked example: feature/ twice, bugfix/ once
ExampleBranches ==
    << Main, <<"f", "e", "a", "t", "u", "r", "e", "/", "a">>, <<"f", "e", "a", "t", "u", "r", "e", "/", "b">>,
       <<"b", "u", "g", "f", "i", "x", "/", "c">> >>

GitBranchListings ==
    {sortBranches(x) : x \in DistinctSeqs(GitBranchNames, MaxGitBranches)}
        \cup {ExampleBranches}

\* os.Getwd in a direct call: the directory, or an error (the directory of the
\* process was removed)
GitGetwdOutcomes ==
    GetwdOutcomes \cup {[ok |-> FALSE, dir |-> <<>>]}

\* a run of the direct calls makes one call: each action applies its function
\* to one input
\* SuggestPaths(branch) while `git worktree list` reports wts
CallSuggestPaths ==
    /\ gitIn = NoCall
    /\ \E wts \in GitWorktreeListings, branch \in GitTargets, wd \in GitGetwdOutcomes :
          \E out \in SuggestPaths(wts, branch, getRepoName(wd)) :
             /\ gitIn' = [op |-> "SuggestPaths", wts |-> wts, branch |-> branch,
                          repoName |-> getRepoName(wd)]
             /\ gitOut' = out
    /\ UNCHANGED tuiVars

\* SuggestBranchNames() while ListBranches returns bs
CallSuggestBranchNames ==
    /\ gitIn = NoCall
    /\ \E bs \in GitBranchListings :
          \E out \in SuggestBranchNames(bs) :
             /\ gitIn' = [op |-> "SuggestBranchNames", bs |-> bs]
             /\ gitOut' = out
    /\ UNCHANGED tuiVars

\* lines `git branch -a` prints: the current branch is marked "* ", a branch
\* checked out in a linked worktree "+ ", every other line is indented; remote
\* branches come as remotes/<remote>/<name>, the remote HEAD as a pointer; a
\* branch name may hold any word, HEAD too
GitBranchLines ==
    { <<"*", " ", "m", "a", "i", "n">>,
      <<" ", " ", "m", "a", "s", "t", "e", "r">>,
      <<"+", " ", "b">>,
      <<" ", " ", "f", "/", "x">>,
      <<" ", " ", "r", "e", "m", "o", "t", "e", "s", "/", "o", "r", "i", "g", "i", "n", "/", "f", "/", "x">>,
      <<" ", " ", "r", "e", "m", "o", "t", "e", "s", "/", "o", "r", "i", "g", "i", "n", "/", "b">>,
      <<" ", " ", "r", "e", "m", "o", "t", "e", "s", "/", "o", "r", "i", "g", "i", "n", "/", "H", "E", "A", "D", " ", "-", ">", " ", "o", "r", "i", "g", "i", "n", "/", "m", "a", "i", "n">>,
      <<" ", " ", "B">>,
      <<" ", " ", "f", "i", "x", "-", "H", "E", "A", "D">> }

\* the output of the worked example, with the empty piece after the last newline
ExampleBranchLines ==
    << <<"*", " ", "m", "a", "i", "n">>,
       <<" ", " ", "f", "e", "a", "t", "u", "r", "e", "/", "x">>,
       <<" ", " ", "r", "e", "m", "o", "t", "e", "s", "/", "o", "r", "i", "g", "i", "n", "/", "f", "e", "a", "t", "u", "r", "e", "/", "x">>,
       <<" ", " ", "r", "e", "m", "o", "t", "e", "s", "/", "o", "r", "i", "g", "i", "n", "/", "H", "E", "A", "D", " ", "-", ">", " ", "o", "r", "i", "g", "i", "n", "/", "m", "a", "i", "n">>,
       <<>> >>

GitBranchOutputs ==
    DistinctSeqs(GitBranchLines, MaxBranchLines) \cup {ExampleBranchLines}

\* ListBranches() while `git branch -a` prints lines
CallListBranches ==
    /\ gitIn = NoCall
    /\ \E lines \in GitBranchOutputs :
          /\ gitIn' = [op |-> "ListBranches", lines |-> lines]
          /\ gitOut' = ListBranches(lines)
    /\ UNCHANGED tuiVars

\* lists handed to sortBranches: names may repeat
SortInputs ==
    UNION {[1..k -> {Main, Master, <<"b">>, <<"B">>}] : k \in 0..MaxSortLen}

\* sortBranches(branches)
CallSortBranches ==
    /\ gitIn = NoCall
    /\ \E bs \in SortInputs :
          /\ gitIn' = [op |-> "sortBranches", bs |-> bs]
          /\ gitOut' = sortBranches(bs)
    /\ UNCHANGED tuiVars

\* lines of a porcelain listing: attribute lines with a value, a path holding a
\* blank, labels without a value, blank lines
PorcelainLines ==
    { <<"w", "o", "r", "k", "t", "r", "e", "e", " ", "/", "a">>,
      <<"w", "o", "r", "k", "t", "r", "e", "e", " ", "/", "b", " ", "c">>,
      <<"H", "E", "A", "D", " ", "1", "2">>,
      <<"b", "r", "a", "n", "c", "h", " ", "r", "e", "f", "s", "/", "h", "e", "a", "d", "s", "/", "x">>,
      <<"d", "e", "t", "a", "c", "h", "e", "d">>,
      <<"w", "o", "r", "k", "t", "r", "e", "e">>,
      <<" ">>,
      <<>> }

\* two worktrees, the second one detached, each block closed by a blank line
ExamplePorcelain ==
    << <<"w", "o", "r", "k", "t", "r", "e", "e", " ", "/", "a">>,
       <<"H", "E", "A", "D", " ", "1", "2">>,
       <<"b", "r", "a", "n", "c", "h", " ", "r", "e", "f", "s", "/", "h", "e", "a", "d", "s", "/", "f", "/", "x">>,
       <<>>,
       <<"w", "o", "r", "k", "t", "r", "e", "e", " ", "/", "b", " ", "c">>,
       <<"H", "E", "A", "D", " ", "3", "4">>,
       <<"d", "e", "t", "a", "c", "h", "e", "d">>,
       <<>>,
       <<>> >>

PorcelainOutputs ==
    UNION {[1..k -> PorcelainLines] : k \in 0..MaxPorcelainLines}
        \cup {ExamplePorcelain}

\* parseWorktrees(output)
CallParseWorktrees ==
    /\ gitIn = NoCall
    /\ \E lines \in PorcelainOutputs :
          /\ gitIn' = [op |-> "parseWorktrees", lines |-> lines]
          /\ gitOut' = parseWorktrees(lines)
    /\ UNCHANGED tuiVars

\* linked worktrees handed to analyzePathPatterns: those above, and one in a
\* folder named after its branch below a folder of the same name
AnalysedWorktrees ==
    GitExtraWorktrees
        \cup {[Path |-> <<"/", "a", "/", "w", "/", "a">>, Branch |-> <<"a">>,
               Commit |-> CommitHash]}

\* analyzePathPatterns(worktrees[1:])
CallAnalyzePathPatterns ==
    /\ gitIn = NoCall
    /\ \E wts \in DistinctSeqs(AnalysedWorktrees, MaxGitWorktrees) :
          \E out \in analyzePathPatterns(wts) :
             /\ gitIn' = [op |-> "analyzePathPatterns", wts |-> wts]
             /\ gitOut' = out
    /\ UNCHANGED tuiVars

\* the model in pathSelectView after Enter in addView on `branch`, SuggestPaths
\* having returned `suggestions`
PathSelectModel(suggestions, branch, wd) ==
    handleEnterAdd([NewModel EXCEPT !.state = "addView"],
                   [title |-> branch, desc |-> Sprintf("", <<>>)],
                   [ok |-> TRUE, suggestions |-> suggestions], wd).m

\* branches for which a path is picked
PickTargets ==
    {<<"a">>, ExampleTarget}

\* Enter in pathSelectView with the cursor on item `picked` of the suggestions
\* SuggestPaths returned
CallPathSelectEnter ==
    /\ gitIn = NoCall
    /\ \E wts \in GitWorktreeListings, branch \in PickTargets, wd \in GetwdOutcomes :
          \E out \in SuggestPaths(wts, branch, getRepoName(wd)) :
             \E picked \in 1..Len(out) :
                /\ gitIn' = [op |-> "handleEnterPathSelect", suggestions |-> out,
                             picked |-> picked]
                /\ gitOut' = handleEnterPathSelect(
                                 PathSelectModel(out, branch, wd),
                                 PathSelectModel(out, branch, wd).list.items[picked],
                                 TRUE)
    /\ UNCHANGED tuiVars

NextGit ==
    \/ CallSuggestPaths
    \/ CallSuggestBranchNames
    \/ CallListBranches
    \/ CallSortBranches
    \/ CallParseWorktrees
    \/ CallAnalyzePathPatterns
    \/ CallPathSelectEnter

SpecGit == Init /\ [][NextGit]_vars

\* C14: what SuggestPaths and SuggestBranchNames return is never empty, its
\* last entry is the custom one, with an empty path or name, and no other
\* entry is custom.
C14_CustomEntryLast ==
    gitIn.op \in {"SuggestPaths", "SuggestBranchNames"}
        => /\ Len(gitOut) >= 1
           /\ gitOut[Len(gitOut)].IsCustom
           /\ \A i \in 1..(Len(gitOut) - 1) : ~gitOut[i].IsCustom
           /\ gitIn.op = "SuggestPaths" => gitOut[Len(gitOut)].Path = <<>>
           /\ gitIn.op = "SuggestBranchNames" => gitOut[Len(gitOut)].Name = <<>>

\* SuggestPaths returned three learned suggestions, so no default, and the
\* custom entry
C14_Witness ==
    /\ gitIn.op = "SuggestPaths"
    /\ Len(gitOut) = 4
    /\ \A i \in 1..3 : gitOut[i].Description.fmt = "Learned pattern (%d similar)"
    /\ gitOut[4].IsCustom

\* the paths of a listing
Paths(wts) ==
    {wts[i].Path : i \in 1..Len(wts)}

\* every worktree of the listing has its branch name in its path
BranchInPath(wts) ==
    \A i \in 1..Len(wts) : Contains(wts[i].Path, wts[i].Branch)

\* C15: when every worktree path holds its branch name verbatim, SuggestPaths
\* returns a suggestion, other than the custom entry, whose path is not the
\* path of a current worktree, and its last entry is the custom one.
C15_FreshCandidate ==
    (gitIn.op = "SuggestPaths" /\ BranchInPath(gitIn.wts))
        => /\ \E i \in 1..Len(gitOut) :
                 /\ ~gitOut[i].IsCustom
                 /\ gitOut[i].Path \notin Paths(gitIn.wts)
           /\ gitOut[Len(gitOut)].IsCustom

\* the linked worktrees of a listing that have a branch
Linked(wts) ==
    {i \in 2..Len(wts) : wts[i].Branch # <<>>}

\* the template a worktree yields, <<>> when its path holds no form of its branch
Yield(w) ==
    extractPattern(w.Path, w.Branch)

\* the templates the linked worktrees of a listing yield
Templates(wts) ==
    {Yield(wts[i]) : i \in Linked(wts)} \ {<<>>}

\* how many linked worktrees yield template t
CountOf(wts, t) ==
    Cardinality({i \in Linked(wts) : Yield(wts[i]) = t})

\* the path template t gives for a branch
Candidate(t, branch) ==
    ReplaceAll(t, Placeholder, ReplaceAll(branch, Slash, Dash))

\* every template the linked worktrees of wts yield, with the number of
\* worktrees yielding it and the path it gives for branch
TemplateUses(wts, branch) ==
    LET yields == {<<i, Yield(wts[i])>> : i \in Linked(wts)}
    IN  {[template |-> y[2],
          count |-> Cardinality({z \in yields : z[2] = y[2]}),
          candidate |-> Candidate(y[2], branch)] : y \in {z \in yields : z[2] # <<>>}}

\* the description of a learned suggestion citing count k
Cites(k) ==
    Sprintf("Learned pattern (%d similar)", <<Itoa(k)>>)

\* C16 as stated: for every template T that k linked worktrees yield, the
\* result holds a suggestion with the path T gives for the branch, and its
\* description cites k.
C16_EveryTemplateCited ==
    gitIn.op = "SuggestPaths"
        => \A t \in Templates(gitIn.wts) :
              \E i \in 1..Len(gitOut) :
                 /\ gitOut[i].Path = Candidate(t, gitIn.branch)
                 /\ gitOut[i].Description = Cites(CountOf(gitIn.wts, t))

\* C16, amended: for every template T that k linked worktrees yield, the
\* result holds exactly one suggestion with the path T gives for the branch;
\* its description cites the largest count among the templates that give this
\* path, which is k when no other template gives it.
C16_LearnedCount ==
    gitIn.op = "SuggestPaths"
        => LET learnt == TemplateUses(gitIn.wts, gitIn.branch)
           IN  \A t \in learnt :
                  LET same == {u \in learnt : u.candidate = t.candidate}
                      hits == {i \in 1..Len(gitOut) : gitOut[i].Path = t.candidate}
                  IN  /\ Cardinality(hits) = 1
                      /\ \E u \in same :
                            /\ \A v \in same : v.count <= u.count
                            /\ \A i \in hits :
                                  gitOut[i].Description = Cites(u.count)

\* the worktrees of the README give ../feature-baz, citing the count 2
C16_Witness ==
    /\ gitIn.op = "SuggestPaths"
    /\ gitIn.wts = ExampleWorktrees
    /\ gitIn.branch = ExampleTarget
    /\ gitOut[1].Path = <<".", ".", "/", "f", "e", "a", "t", "u", "r", "e", "-", "b", "a", "z">>
    /\ gitOut[1].Description = Cites(2)

\* the learned suggestions of a result, by index
Learned(out) ==
    {i \in 1..Len(out) : out[i].Description.fmt = "Learned pattern (%d similar)"}

\* the count a learned suggestion cites, for a listing wts
Cited(wts, sug) ==
    CHOOSE k \in 0..Len(wts) : sug.Description = Cites(k)

\* C17: the learned suggestions come in non-increasing order of the count
\* they cite, which is the count of a template giving their path, and every
\* learned suggestion comes before every other suggestion.
C17_LearnedOrder ==
    gitIn.op = "SuggestPaths"
        => /\ \A i, j \in Learned(gitOut) :
                 i < j => Cited(gitIn.wts, gitOut[i]) >= Cited(gitIn.wts, gitOut[j])
           /\ LET learnt == TemplateUses(gitIn.wts, gitIn.branch)
              IN  \A i \in Learned(gitOut) :
                     \E t \in learnt :
                        /\ t.candidate = gitOut[i].Path
                        /\ Cites(t.count) = gitOut[i].Description
           /\ \A i \in Learned(gitOut), j \in (1..Len(gitOut)) \ Learned(gitOut) : i < j

\* a template used twice comes first, one used once second, then a default
C17_Witness ==
    /\ gitIn.op = "SuggestPaths"
    /\ Learned(gitOut) = {1, 2}
    /\ gitOut[1].Description = Cites(2)
    /\ gitOut[2].Description = Cites(1)
    /\ gitOut[3].Description = Sprintf("Sibling directory (default)", <<>>)

\* a branch name up to and including its first "/", <<>> for main, master and
\* a name without "/"
PrefixIn(b) ==
    IF b \in {Main, Master} \/ ~Contains(b, Slash) THEN <<>>
    ELSE SubSeq(b, 1, CHOOSE i \in 1..Len(b) :
                         b[i] = "/" /\ \A j \in 1..(i - 1) : b[j] # "/")

\* how many branches of bs have prefix p
UsesOf(bs, p) ==
    Cardinality({i \in 1..Len(bs) : PrefixIn(bs[i]) = p})

Conventional ==
    {<<"f", "e", "a", "t", "u", "r", "e", "/">>,
     <<"b", "u", "g", "f", "i", "x", "/">>,
     <<"h", "o", "t", "f", "i", "x", "/">>,
     <<"r", "e", "l", "e", "a", "s", "e", "/">>,
     <<"r", "e", "f", "a", "c", "t", "o", "r", "/">>,
     <<"c", "h", "o", "r", "e", "/">>}

\* the suggestions of a result that are learned, by index
LearnedNames(out) ==
    {i \in 1..Len(out) : out[i].Description.fmt = "Learned pattern (%d branches)"}

\* C18: a prefix is a learned suggestion exactly when at least two branches
\* have it, and then the suggestion cites that number; each of the six
\* conventional prefixes is suggested exactly once, as learned when two
\* branches have it and from the fixed list otherwise; no name is suggested
\* twice.
C18_BranchPrefixes ==
    gitIn.op = "SuggestBranchNames"
        => LET bs == gitIn.bs
               prefixes == {PrefixIn(bs[i]) : i \in 1..Len(bs)} \ {<<>>}
           IN  /\ \A p \in prefixes :
                     (\E i \in LearnedNames(gitOut) : gitOut[i].Name = p)
                        <=> UsesOf(bs, p) >= 2
               /\ \A i \in LearnedNames(gitOut) :
                     /\ gitOut[i].Name \in prefixes
                     /\ gitOut[i].Description =
                            Sprintf("Learned pattern (%d branches)",
                                    <<Itoa(UsesOf(bs, gitOut[i].Name))>>)
               /\ \A c \in Conventional :
                     /\ Cardinality({i \in 1..Len(gitOut) : gitOut[i].Name = c}) = 1
                     /\ (\E i \in LearnedNames(gitOut) : gitOut[i].Name = c)
                           <=> UsesOf(bs, c) >= 2
               /\ \A i, j \in 1..Len(gitOut) :
                     gitOut[i].Name = gitOut[j].Name => i = j

\* the worked example: feature/ is learned from two branches, bugfix/ has one
\* branch and comes from the fixed list
C18_Witness ==
    /\ gitIn.op = "SuggestBranchNames"
    /\ gitIn.bs = ExampleBranches
    /\ Len(gitOut) = 7
    /\ gitOut[1].Name = <<"f", "e", "a", "t", "u", "r", "e", "/">>
    /\ gitOut[1].Description = Sprintf("Learned pattern (%d branches)", <<Itoa(2)>>)
    /\ gitOut[2].Name = <<"b", "u", "g", "f", "i", "x", "/">>
    /\ gitOut[2].Description = Sprintf("Bug fix", <<>>)

(***************************************************************************)
(* ListBranches and sortBranches                                           *)
(***************************************************************************)
\* the reference a line of `git branch -a` prints after its two marker columns
RefOfLine(line) ==
    IF Len(line) < 2 THEN <<>> ELSE SubSeq(line, 3, Len(line))

OriginHead == <<"r", "e", "m", "o", "t", "e", "s", "/", "o", "r", "i", "g", "i", "n", "/", "H", "E", "A", "D">>

\* names of the local branches the output shows
LocalNames(lines) ==
    {RefOfLine(lines[k]) : k \in {x \in 1..Len(lines) :
        /\ RefOfLine(lines[x]) # <<>>
        /\ ~HasPrefixAt(RefOfLine(lines[x]), RemotesOrigin, 1)}}

\* names of the branches of origin the output shows, its HEAD pointer left out
OriginNames(lines) ==
    {SubSeq(RefOfLine(lines[k]), Len(RemotesOrigin) + 1, Len(RefOfLine(lines[k]))) :
        k \in {x \in 1..Len(lines) :
            /\ HasPrefixAt(RefOfLine(lines[x]), RemotesOrigin, 1)
            /\ ~HasPrefixAt(RefOfLine(lines[x]), OriginHead, 1)}}

\* entry e of the list stands for branch n: it is the name, possibly still
\* carrying the marker of a branch checked out in a linked worktree
DenotesBranch(e, n) ==
    \/ e = n
    \/ e = <<"+", " ">> \o n

\* C19: the list ListBranches returns has no entry that is or contains HEAD,
\* no empty entry, and every branch of the repository at most once: a local
\* branch and its remotes/origin counterpart are one entry.
C19_BranchesListedOnce ==
    gitIn.op = "ListBranches" =>
        /\ \A i \in 1..Len(gitOut) :
              gitOut[i] # <<>> /\ ~Contains(gitOut[i], HeadWord)
        /\ \A i, j \in 1..Len(gitOut) : i # j => gitOut[i] # gitOut[j]
        /\ \A n \in LocalNames(gitIn.lines) \cup OriginNames(gitIn.lines) :
              Cardinality({i \in 1..Len(gitOut) : DenotesBranch(gitOut[i], n)}) <= 1

\* place of a name in the order of sortBranches
Rank(b) ==
    IF b = Main THEN 0 ELSE IF b = Master THEN 1 ELSE 2

\* main, then master, then the other names in ascending order
InBranchOrder(out) ==
    \A i, j \in 1..Len(out) :
        i < j => \/ Rank(out[i]) < Rank(out[j])
                 \/ Rank(out[i]) = Rank(out[j]) /\ ~StrLess(out[j], out[i])

Occurrences(q, b) ==
    Cardinality({k \in 1..Len(q) : q[k] = b})

IsPermutation(p, q) ==
    /\ Len(p) = Len(q)
    /\ \A k \in 1..Len(q) : Occurrences(p, q[k]) = Occurrences(q, q[k])

FeatureX == <<"f", "e", "a", "t", "u", "r", "e", "/", "x">>

\* C20: the list ListBranches returns has main first when it is in the list,
\* then master, then the other names in ascending case-sensitive order;
\* sortBranches returns a permutation of its input; the lines "* main",
\* "feature/x", "remotes/origin/feature/x" and
\* "remotes/origin/HEAD -> origin/main" give exactly main, feature/x.
C20_BranchOrder ==
    /\ gitIn.op = "ListBranches" =>
          /\ InBranchOrder(gitOut)
          /\ \A i, j \in 1..Len(gitOut) :
                i < j /\ Rank(gitOut[i]) = 2 => StrLess(gitOut[i], gitOut[j])
          /\ \A i \in 1..Len(gitOut) : gitOut[i] = Main => i = 1
          /\ \A i \in 1..Len(gitOut) : gitOut[i] = Master => i <= 2
          /\ IsPermutation(gitOut,
                           uniqueBranches(collectBranches(gitIn.lines, <<>>), <<>>))
          /\ gitIn.lines = ExampleBranchLines => gitOut = <<Main, FeatureX>>
    /\ gitIn.op = "sortBranches" =>
          /\ IsPermutation(gitOut, gitIn.bs)
          /\ InBranchOrder(gitOut)

\* the worked example has been listed
C20_Witness ==
    /\ gitIn.op = "ListBranches"
    /\ gitIn.lines = ExampleBranchLines
    /\ gitOut = <<Main, FeatureX>>

\* C23: whenever the screen is the menu, the list holds exactly the four
\* standard menu entries, whichever way the menu was entered again.
C23_MenuHoldsMenuItems ==
    m.state = "menuView" => m.list.items = MenuItems

\* the arguments of add operation c are path and the choices of the flow
FlowArguments(c, path) ==
    /\ c.args[1] = path
    /\ Len(chosen.branch) = 1
    /\ c.args[2] = chosen.branch[1]
    /\ flowMode = (IF c.op = "AddWorktreeWithNewBranch" THEN "new" ELSE "existing")
    /\ c.op = "AddWorktreeWithNewBranch"
          => Len(chosen.base) = 1 /\ c.args[3] = chosen.base[1]

\* C24: at every commit the add operation gets the branch selected in addView
\* or typed in newBranchNameView, the base branch selected in
\* newBranchBaseView and the path of the suggestion selected in pathSelectView
\* or the text typed in customPathView, all of them chosen since the screen
\* last left the menu.
C24_CommitUsesFlowChoices ==
    [][/\ \A ok \in BOOLEAN :
             \A selected \in (IF m.state = "pathSelectView" /\ ~m.quitting
                              THEN SelectedItem(m) ELSE {}) :
                (/\ Invoked(calls', AddOps) # {}
                 /\ Handled(handleEnterPathSelect(m, selected, ok)))
                   => FlowArguments(calls'[1], selected.title)
       /\ \/ m.state # "customPathView"
          \/ Invoked(calls', AddOps) = {}
          \/ /\ Len(chosen.path) = 1
             /\ FlowArguments(calls'[1], chosen.path[1])
          \/ ~EnterCustomPath]_vars

\* a second flow, after an earlier one, committed a new branch on a path typed
\* by hand
C24_Witness ==
    /\ m.state = "menuView"
    /\ flows = 2
    /\ Len(calls) = 1
    /\ calls[1].op = "AddWorktreeWithNewBranch"
    /\ calls[1].ok
    /\ \E c \in TypedChars : calls[1].args[1] = <<c>>

C31_FilterOnlyOnBranchScreens ==
    m.list.filteringEnabled => m.state \in {"addView", "newBranchBaseView"}

\* C32: in every state of the running program q (or ctrl+c) can be pressed;
\* a press in the menu terminates the program, a press in another screen
\* leads to the menu, where the next press terminates it; no press invokes a
\* git operation, and quitting, once set, stays set.
C32_TwoQuitPresses ==
    [][/\ m.quitting \/ ENABLED KeyQuit
       /\ m.quitting => m'.quitting
       /\ \/ /\ calls' = <<>>
             /\ IF m.state = "menuView" THEN m'.quitting
                ELSE m'.state = "menuView" /\ ~m'.quitting
          \/ ~KeyQuit]_vars

\* the program ended with the entries of the branch mode screen still in the
\* list: q was pressed there and once more in the menu
C32_Witness ==
    /\ m.quitting
    /\ m.state = "menuView"
    /\ m.list.items = BranchModeItems
    /\ calls = <<>>

(***************************************************************************)
(* parseWorktrees                                                          *)
(***************************************************************************)
\* C21: parseWorktrees never emits a record with an empty Path, whatever the
\* text: a blank line or the end of the text reached with no path
\* accumulated emits nothing.
C21_NoEmptyPath ==
    gitIn.op = "parseWorktrees" =>
        \A i \in 1..Len(gitOut) : gitOut[i].Path # <<>>

\* a text whose first lines are a branch line and a blank line, followed by a
\* worktree: one record, for the worktree
C21_Witness ==
    /\ gitIn.op = "parseWorktrees"
    /\ Len(gitIn.lines) = 4
    /\ gitIn.lines[1] = <<"b", "r", "a", "n", "c", "h", " ", "r", "e", "f", "s", "/", "h", "e", "a", "d", "s", "/", "x">>
    /\ gitIn.lines[2] = <<>>
    /\ gitIn.lines[3] = <<"w", "o", "r", "k", "t", "r", "e", "e", " ", "/", "a">>
    /\ gitIn.lines[4] = <<>>
    /\ Len(gitOut) = 1
    /\ gitOut[1].Path = <<"/", "a">>

\* the blocks of a text: the runs of lines between blank lines
RECURSIVE BlocksOf(_, _)
BlocksOf(lines, cur) ==
    IF lines = <<>> THEN <<cur>>
    ELSE IF TrimSpace(Head(lines)) = <<>> THEN <<cur>> \o BlocksOf(Tail(lines), <<>>)
    ELSE BlocksOf(Tail(lines), Append(cur, Head(lines)))

\* the lines of a block that give a value for label
LabelLines(block, label) ==
    {i \in 1..Len(block) : HasPrefixAt(TrimSpace(block[i]), label \o <<" ">>, 1)}

\* the value of the last line of block for label, <<>> when it has none
LastValue(block, label) ==
    IF LabelLines(block, label) = {} THEN <<>>
    ELSE LET i == CHOOSE x \in LabelLines(block, label) :
                     \A y \in LabelLines(block, label) : y <= x
         IN  SubSeq(TrimSpace(block[i]), Len(label) + 2, Len(TrimSpace(block[i])))

WorktreeLabel == <<"w", "o", "r", "k", "t", "r", "e", "e">>

BranchLabel == <<"b", "r", "a", "n", "c", "h">>

HasWorktreeLine(block) ==
    LabelLines(block, WorktreeLabel) # {}

\* the record the lines of one block describe
RecordOf(block) ==
    [Path |-> LastValue(block, WorktreeLabel),
     Branch |-> TrimPrefix(LastValue(block, BranchLabel), RefsHeads),
     Commit |-> LastValue(block, HeadWord)]

RECURSIVE LinesOfBlocks(_, _, _)
LinesOfBlocks(bl, lo, hi) ==
    IF lo > hi THEN <<>> ELSE bl[lo] \o LinesOfBlocks(bl, lo + 1, hi)

\* block b of bl together with the blocks without a worktree line just before it
GroupOf(bl, b) ==
    LET before == {x \in 1..(b - 1) : HasWorktreeLine(bl[x])}
        prev == IF before = {} THEN 0
                ELSE CHOOSE x \in before : \A y \in before : y <= x
    IN  LinesOfBlocks(bl, prev + 1, b)

PlaceholderCount(t) ==
    Cardinality({i \in 1..Len(t) : HasPrefixAt(t, Placeholder, i)})

\* the worktrees of wts that have a branch and yield template t
YieldingWorktrees(wts, t) ==
    {i \in 1..Len(wts) : wts[i].Branch # <<>> /\ Yield(wts[i]) = t}

\* C25: every template analyzePathPatterns returns, each derived by
\* extractPattern, holds the placeholder exactly once, and its count is the
\* number of analysed worktrees that yield it, at least 1.
C25_SinglePlaceholder ==
    gitIn.op = "analyzePathPatterns" =>
        \A k \in 1..Len(gitOut) :
           /\ PlaceholderCount(gitOut[k].Template) = 1
           /\ gitOut[k].Count >= 1
           /\ gitOut[k].Count
                 = Cardinality(YieldingWorktrees(gitIn.wts, gitOut[k].Template))

(***************************************************************************)
(* SuggestPaths: the order and the choice of the suggestions               *)
(***************************************************************************)
\* the place in wts of the first worktree that yields template t
FirstYield(wts, t) ==
    CHOOSE i \in YieldingWorktrees(wts, t) : \A j \in YieldingWorktrees(wts, t) : i <= j

\* the learned patterns of wts, larger counts first, equal counts in the order
\* in which the templates were first found
InDiscoveryOrder(ps, wts) ==
    \A i, j \in 1..Len(ps) :
        i < j => \/ ps[i].Count > ps[j].Count
                 \/ /\ ps[i].Count = ps[j].Count
                    /\ FirstYield(wts, ps[i].Template) < FirstYield(wts, ps[j].Template)

\* C26: for a worktree listing, a branch and a repository name SuggestPaths
\* has one possible result, and in it templates of equal count come in the
\* order in which the listing first shows them.
C26_OneResult ==
    gitIn.op = "SuggestPaths" =>
        /\ SuggestPaths(gitIn.wts, gitIn.branch, gitIn.repoName) = {gitOut}
        /\ Len(gitIn.wts) > 1
              => \E ps \in analyzePathPatterns(SubSeq(gitIn.wts, 2, Len(gitIn.wts))) :
                    /\ InDiscoveryOrder(ps, SubSeq(gitIn.wts, 2, Len(gitIn.wts)))
                    /\ gitOut = suggestPathsFrom(ps, gitIn.branch, gitIn.repoName)

\* the paths of the default suggestions for a branch, in their order
DefaultPaths(branch, repoName) ==
    LET b == ReplaceAll(branch, Slash, Dash)
    IN  << <<".", ".", "/">> \o b,
           <<".", ".", "/", "w", "o", "r", "k", "t", "r", "e", "e", "s", "/">> \o b >>
        \o (IF repoName # <<>> THEN << <<".", ".", "/">> \o repoName \o Dash \o b >>
            ELSE <<>>)

\* the paths of ps that are not in seen, each once
RECURSIVE NotYetProduced(_, _)
NotYetProduced(ps, seen) ==
    IF ps = <<>> THEN <<>>
    ELSE IF Head(ps) \in seen THEN NotYetProduced(Tail(ps), seen)
    ELSE <<Head(ps)>> \o NotYetProduced(Tail(ps), seen \cup {Head(ps)})

\* C27: with three or more learned suggestions the result is the learned
\* suggestions and the custom entry; with fewer, the defaults ../<b>,
\* ../worktrees/<b> and, when the repository name is known, ../<repo>-<b>
\* follow the learned ones in this order, each left out exactly when its path
\* was already produced (b is the branch with "/" replaced by "-").
C27_DefaultsWhenFewLearned ==
    gitIn.op = "SuggestPaths" =>
        LET n == Cardinality(Learned(gitOut))
            rest == SubSeq(gitOut, n + 1, Len(gitOut) - 1)
            produced == {gitOut[k].Path : k \in 1..n}
        IN  /\ Learned(gitOut) = 1..n
            /\ gitOut[Len(gitOut)].IsCustom
            /\ n >= 3 => rest = <<>>
            /\ n < 3 =>
                  /\ [k \in 1..Len(rest) |-> rest[k].Path]
                        = NotYetProduced(DefaultPaths(gitIn.branch, gitIn.repoName),
                                         produced)
                  /\ \A k \in 1..Len(rest) :
                        rest[k].Description.fmt
                           \in {"Sibling directory (default)",
                                "Organized in worktrees folder",
                                "With repository name prefix"}

\* three learned suggestions and the custom entry, nothing else
C27_Witness ==
    /\ gitIn.op = "SuggestPaths"
    /\ Len(gitOut) = 4
    /\ Learned(gitOut) = {1, 2, 3}
    /\ gitOut[4].IsCustom

\* the worktrees of the README: the learned ../feature-baz stands for the
\* first default, the other defaults follow
C27_DefaultLeftOut ==
    /\ gitIn.op = "SuggestPaths"
    /\ gitIn.wts = ExampleWorktrees
    /\ gitIn.branch = ExampleTarget
    /\ gitIn.repoName # <<>>
    /\ Len(gitOut) = 4
    /\ Learned(gitOut) = {1}
    /\ gitOut[2].Description = Sprintf("Organized in worktrees folder", <<>>)
    /\ gitOut[3].Description = Sprintf("With repository name prefix", <<>>)

\* C28: the paths of a result of SuggestPaths are pairwise distinct and only
\* the custom entry has an empty path; so Enter in pathSelectView commits the
\* suggestion under the cursor, not another one shown with the same title.
C28_DistinctPaths ==
    /\ gitIn.op = "SuggestPaths" =>
          /\ \A i, j \in 1..Len(gitOut) : i # j => gitOut[i].Path # gitOut[j].Path
          /\ \A i \in 1..Len(gitOut) : ~gitOut[i].IsCustom => gitOut[i].Path # <<>>
    /\ gitIn.op = "handleEnterPathSelect" =>
          IF gitIn.suggestions[gitIn.picked].IsCustom
          THEN gitOut.calls = <<>> /\ gitOut.m.state = "customPathView"
          ELSE /\ Len(gitOut.calls) = 1
               /\ gitOut.calls[1].op \in AddOps
               /\ gitOut.calls[1].args[1] = gitIn.suggestions[gitIn.picked].Path

\* two templates gave the path /aa, which is suggested once; the suggestion
\* after it was picked and committed
C28_Witness ==
    /\ gitIn.op = "handleEnterPathSelect"
    /\ gitIn.picked = 2
    /\ gitIn.suggestions[1].Path = <<"/", "a", "a">>
    /\ gitIn.suggestions[1].Description = Cites(2)
    /\ ~gitIn.suggestions[2].IsCustom
    /\ Len(gitOut.calls) = 1
    /\ gitOut.calls[1].args[1] = gitIn.suggestions[2].Path

(***************************************************************************)
(* ListBranches: what is discarded                                         *)
(***************************************************************************)
\* C29: ListBranches discards only blank lines and the HEAD pointer line:
\* the name of every other line, without its marker and without
\* remotes/origin/, is in the result, so that every branch can be selected.
C29_EveryBranchListed ==
    gitIn.op = "ListBranches" =>
        \A n \in LocalNames(gitIn.lines) \cup OriginNames(gitIn.lines) :
           \E i \in 1..Len(gitOut) : gitOut[i] = n

=============================================================================
